---- MODULE Spec2Model ----
(***************************************************************************)
(* A model of the Idox grant scraper: the two entry points                 *)
(* scrapeIdoxGrants and scrapeIdoxGrantsWithProgress, the pagination       *)
(* walker extractGrantsSimple, the record extractor extractGrantsFromPage, *)
(* the enrichment pass enrichGrants, and the SSE handler that feeds the    *)
(* progress callback.  One action models the code run when one awaited     *)
(* browser operation completes, up to the next await.  The portal is the   *)
(* environment: each awaited operation may succeed or reject.              *)
(***************************************************************************)
EXTENDS Integers, Sequences, FiniteSets, TLC

(***************************************************************************)
(* Bounds of the portal fixtures.                                          *)
(***************************************************************************)
MaxPortalPages == 2

MaxPerPage == 2

(***************************************************************************)
(* Program constants.                                                      *)
(***************************************************************************)
IDOX_HOST == "https://funding.idoxopen4community.co.uk"

STATUS_FILTERS == <<"Open for Applications", "Future">>

AREA_OF_WORK_FILTERS ==
  <<"Community", "Disability", "Supporting Parents and Children",
    "Promoting Mental Health", "Promoting Physical Health",
    "Community Facilities", "Sport and Recreation", "Play Opportunities">>

MAX_PAGES == 60

TITLE_IN_PROGRESS == 60

DESCRIPTION_MAX == 2000

ELIGIBILITY_MAX == 2000

HOW_TO_APPLY_MAX == 1000

CONTACT_INFO_MAX == 500

ADDITIONAL_INFO_MAX == 500

(***************************************************************************)
(* JavaScript string primitives, on TLA+ strings.                          *)
(***************************************************************************)
Whitespace == {" ", "\n", "\t", "\r"}

Min(a, b) == IF a < b THEN a ELSE b

\* s.substring(0, n)
Substring0(s, n) == SubSeq(s, 1, Min(n, Len(s)))

\* s.startsWith(p)
StartsWith(s, p) == Len(s) >= Len(p) /\ SubSeq(s, 1, Len(p)) = p

RECURSIVE Includes(_, _)
\* s.includes(p), also the CSS attribute selector [href*="p"]
Includes(s, p) ==
  IF Len(s) < Len(p) THEN FALSE
  ELSE IF SubSeq(s, 1, Len(p)) = p THEN TRUE
  ELSE Includes(Tail(s), p)

RECURSIVE TrimStart(_)
TrimStart(s) ==
  IF s # "" /\ Head(s) \in Whitespace THEN TrimStart(Tail(s)) ELSE s

RECURSIVE TrimEnd(_)
TrimEnd(s) ==
  IF s # "" /\ SubSeq(s, Len(s), Len(s)) \in Whitespace
  THEN TrimEnd(SubSeq(s, 1, Len(s) - 1))
  ELSE s

\* s.trim()
Trim(s) == TrimEnd(TrimStart(s))

RECURSIVE ReplaceAll(_, _, _)
\* s.replace(/pat/g, rep) for a literal pattern: leftmost, non-overlapping
ReplaceAll(s, pat, rep) ==
  IF Len(s) < Len(pat) THEN s
  ELSE IF SubSeq(s, 1, Len(pat)) = pat
       THEN rep \o ReplaceAll(SubSeq(s, Len(pat) + 1, Len(s)), pat, rep)
       ELSE Head(s) \o ReplaceAll(Tail(s), pat, rep)

RECURSIVE IndexOfGt(_, _)
\* position of the first ">" of s at or after position k, 0 when there is none
IndexOfGt(s, k) ==
  IF k > Len(s) THEN 0
  ELSE IF SubSeq(s, k, k) = ">" THEN k
  ELSE IndexOfGt(s, k + 1)

RECURSIVE StripTags(_)
\* s.replace(/<[^>]*>/g, '')
StripTags(s) ==
  IF s = "" THEN ""
  ELSE IF Head(s) = "<"
       THEN LET j == IndexOfGt(s, 2)
            IN  IF j = 0 THEN s ELSE StripTags(SubSeq(s, j + 1, Len(s)))
       ELSE Head(s) \o StripTags(Tail(s))

RECURSIVE CollapseWhitespace(_)
\* s.replace(/\s+/g, ' ')
CollapseWhitespace(s) ==
  IF s = "" THEN ""
  ELSE IF Head(s) \in Whitespace
       THEN " " \o CollapseWhitespace(TrimStart(s))
       ELSE Head(s) \o CollapseWhitespace(Tail(s))

\* ASCII stand-ins for the three non-ASCII characters the decoder produces:
\* U+2013 (en dash), U+2014 (em dash) and U+00A3 (pound sign).
NDASH == "~"

MDASH == "_"

POUND == "$"

DecodeEntities(s) ==
  LET s1 == ReplaceAll(s, "&nbsp;", " ")
      s2 == ReplaceAll(s1, "&amp;", "&")
      s3 == ReplaceAll(s2, "&lt;", "<")
      s4 == ReplaceAll(s3, "&gt;", ">")
      s5 == ReplaceAll(s4, "&quot;", "\"")
      s6 == ReplaceAll(s5, "&#39;", "'")
      s7 == ReplaceAll(s6, "&ndash;", NDASH)
      s8 == ReplaceAll(s7, "&mdash;", MDASH)
  IN  ReplaceAll(s8, "&pound;", POUND)

sanitizeText_DecodeFirst(t) ==
  IF t = "" THEN ""
  ELSE Trim(CollapseWhitespace(StripTags(DecodeEntities(t))))

sanitizeText(text) ==
  IF text = "" THEN ""
  ELSE Trim(CollapseWhitespace(DecodeEntities(StripTags(text))))

\* x || undefined : an optional field is <<>> when absent, <<x>> when set
OrUndefined_EmptyString(s) == <<s>>

OrUndefined(s) == IF s = "" THEN <<>> ELSE <<s>>

\* Math.round((cur / total) * 100), for 0 < cur <= total
Percentage(cur, total) == (200 * cur + total) \div (2 * total)

(***************************************************************************)
(* The portal.  A fixture is [numPages, perPage, offset, endless]: the     *)
(* listing has numPages pages of perPage items, drawn in order from Pool   *)
(* starting at offset.  An honest portal offers a pagination control for   *)
(* page m exactly when m <= numPages; an endless one always shows a link   *)
(* that the next-page detection takes for the control of page m, and       *)
(* triggering it beyond the last page changes nothing.                     *)
(***************************************************************************)
\* the `main li` items the listing pages are made of
Pool ==
  << [title |-> " Alpha ", href |-> "/Scheme/View/1", funder |-> "Trust",
      terms |-> << [label |-> "Status", value |-> "Future"],
                   [label |-> "Maximum value", value |-> "5000"] >>],
     [title |-> "Beta", href |-> IDOX_HOST \o "/Scheme/View/2", funder |-> "",
      terms |-> << [label |-> "Current deadline", value |-> "1 May"],
                   [label |-> "Status", value |-> "Closed"],
                   [label |-> "Status", value |-> "Open for Applications"] >>],
     [title |-> " \n", href |-> "/Scheme/View/3", funder |-> "Fund",
      terms |-> << >>],
     [title |-> "Gamma", href |-> "", funder |-> "",
      terms |-> << [label |-> "Status", value |-> "Future"] >>],
     [title |-> "Alpha", href |-> "bca/Scheme/View/5", funder |-> "",
      terms |-> << >>] >>

\* the items of a listing whose six records are all well-formed
CleanPool ==
  << [title |-> "One", href |-> "/Scheme/View/61", funder |-> "Trust",
      terms |-> << [label |-> "Status", value |-> "Future"] >>],
     [title |-> "Two", href |-> "/Scheme/View/62", funder |-> "", terms |-> << >>],
     [title |-> "Three", href |-> "/Scheme/View/63", funder |-> "", terms |-> << >>],
     [title |-> "Four", href |-> "/Scheme/View/64", funder |-> "", terms |-> << >>],
     [title |-> "Five", href |-> "/Scheme/View/65", funder |-> "", terms |-> << >>],
     [title |-> "Six", href |-> "/Scheme/View/66", funder |-> "", terms |-> << >>] >>

\* three listing pages of two records each, as in the end-to-end properties
EndToEndPortal ==
  [numPages |-> 3, perPage |-> 2, offset |-> 0, endless |-> FALSE, clean |-> TRUE]

Portals ==
  { [numPages |-> 0, perPage |-> 1, offset |-> 0, endless |-> FALSE,
     clean |-> FALSE],
    EndToEndPortal }
  \cup
  [numPages : 1..MaxPortalPages, perPage : 1..MaxPerPage,
   offset : 0..(Len(Pool) - 1), endless : {FALSE}, clean : {FALSE}]
  \cup
  [numPages : 1..MaxPortalPages, perPage : {MaxPerPage},
   offset : {0, Len(Pool) - 1}, endless : {TRUE}, clean : {FALSE}]

PoolOf(portal) == IF portal.clean THEN CleanPool ELSE Pool

\* the `main li` items of listing page p
ListingItems(portal, p) ==
  IF p = 0 THEN << >>
  ELSE [j \in 1..portal.perPage |->
          PoolOf(portal)[(((p - 1) * portal.perPage + (j - 1) + portal.offset)
                            % Len(PoolOf(portal))) + 1]]

\* the listing page shown when the search results first load
FirstShown(portal) == IF portal.numPages >= 1 THEN 1 ELSE 0

\* is there something on the page that next-page detection can take for the
\* control of page m
ControlExists(portal, m) == portal.endless \/ m <= portal.numPages

\* the listing page shown after the control of page m has been triggered
ShowPage(portal, cur, m) == IF m <= portal.numPages THEN m ELSE cur

\* the portal answers the request for this detail page with status 404
NotFound(link) == Includes(link, "/Scheme/View/64")

\* what page.evaluate finds on the page a 404 answer carries: no heading
\* that matches, and the text of the error page
NotFoundPage ==
  [description |-> "", eligibility |-> "", howToApply |-> "", contactInfo |-> "",
   areasOfWork |-> "", fullText |-> "Page not found"]

\* what page.evaluate finds on the detail page behind a link
DetailPage(link) ==
  IF NotFound(link) THEN NotFoundPage
  ELSE IF Includes(link, "/Scheme/View/1")
  THEN [description |-> "<p>Play &amp; sport</p>", eligibility |-> "",
        howToApply |-> " Apply  online\n", contactInfo |-> "<br>",
        areasOfWork |-> "Sport, Play", fullText |-> "Alpha  grant"]
  ELSE IF Includes(link, "/Scheme/View/2")
  THEN [description |-> "", eligibility |-> "", howToApply |-> "",
        contactInfo |-> "", areasOfWork |-> "", fullText |-> ""]
  ELSE [description |-> "Small grants", eligibility |-> "Groups &lt; 5",
        howToApply |-> "", contactInfo |-> "a@b", areasOfWork |-> " ",
        fullText |-> "Not <b>found</b>"]

(***************************************************************************)
(* The record extractor, extractGrantsFromPage.                            *)
(***************************************************************************)
\* item.querySelector('a[href*="/Scheme/View/"]') finds a link
HasTitleLink(item) == Includes(item.href, "/Scheme/View/")

\* the loop with a placeholder in place of the empty default
TermValue_Unknown(terms, label, k) ==
  LET hits == {j \in 1..k : Trim(terms[j].label) = label}
  IN  IF hits = {} THEN "Unknown"
      ELSE Trim(terms[CHOOSE j \in hits : \A h \in hits : h <= j].value)

RECURSIVE TermValue(_, _, _)
\* the terms.forEach loop: the value of the last <dt> whose label matches
TermValue(terms, label, k) ==
  IF k = 0 THEN ""
  ELSE IF Trim(terms[k].label) = label THEN Trim(terms[k].value)
  ELSE TermValue(terms, label, k - 1)

KeepCandidate_LinkOnly(title, href) == href # ""

\* if (title && href)
KeepCandidate(title, href) == title # "" /\ href # ""

\* data.link.startsWith('http') ? data.link : host + data.link
AbsoluteLink(href) == IF StartsWith(href, "http") THEN href ELSE IDOX_HOST \o href

GrantOfItem(item) ==
  [title |-> Trim(item.title),
   funder |-> Trim(item.funder),
   maxAmount |-> TermValue(item.terms, "Maximum value", Len(item.terms)),
   deadline |-> TermValue(item.terms, "Current deadline", Len(item.terms)),
   status |-> TermValue(item.terms, "Status", Len(item.terms)),
   link |-> AbsoluteLink(item.href),
   areaOfWork |-> "",
   description |-> << >>, eligibility |-> << >>, howToApply |-> << >>,
   contactInfo |-> << >>, additionalInfo |-> << >>]

RECURSIVE MapGrants(_)
MapGrants(items) ==
  IF items = << >> THEN << >>
  ELSE << GrantOfItem(Head(items)) >> \o MapGrants(Tail(items))

extractGrantsFromPage(items) ==
  MapGrants(SelectSeq(items,
     LAMBDA it : HasTitleLink(it) /\ KeepCandidate(Trim(it.title), it.href)))

\* document.querySelector('main li a[href*="/Scheme/View/"]')?.textContent?.trim() || ''
FirstLinkTitle(items) ==
  LET linked == SelectSeq(items, HasTitleLink)
  IN  IF linked = << >> THEN "" ELSE Trim(linked[1].title)

(***************************************************************************)
(* Enrichment of one record from its detail page.                          *)
(***************************************************************************)
\* the object page.evaluate returns (lines 758-765)
Details(page) ==
  [description |-> Substring0(page.description, DESCRIPTION_MAX),
   eligibility |-> Substring0(page.eligibility, ELIGIBILITY_MAX),
   howToApply |-> Substring0(page.howToApply, HOW_TO_APPLY_MAX),
   contactInfo |-> Substring0(page.contactInfo, CONTACT_INFO_MAX),
   areaOfWork |-> page.areasOfWork,
   additionalInfo |-> Substring0(page.fullText, ADDITIONAL_INFO_MAX)]

\* { ...grant, description: sanitizeText(...) || undefined, ... }
EnrichedGrant(grant, details) ==
  [grant EXCEPT
     !.description = OrUndefined(sanitizeText(details.description)),
     !.eligibility = OrUndefined(sanitizeText(details.eligibility)),
     !.howToApply = OrUndefined(sanitizeText(details.howToApply)),
     !.contactInfo = OrUndefined(sanitizeText(details.contactInfo)),
     !.areaOfWork = IF sanitizeText(details.areaOfWork) # ""
                    THEN sanitizeText(details.areaOfWork)
                    ELSE grant.areaOfWork,
     !.additionalInfo = OrUndefined(sanitizeText(details.additionalInfo))]

(***************************************************************************)
(* State.                                                                  *)
(***************************************************************************)
VARIABLES
  entry,              \* the entry point invoked
  cb,                 \* onProgress: "none", "sse" (the handler's), "throwing"
  IDOX_USERNAME,      \* process.env.IDOX_USERNAME || ''
  IDOX_PASSWORD,      \* process.env.IDOX_PASSWORD || ''
  enrich,             \* options.enrich
  portal,             \* the portal fixture the invocation runs against
  pc,                 \* the operation the invocation is waiting for
  browser,            \* "null", "open" or "closed"
  netUsed,            \* has a request been sent to the portal
  error,              \* what the invocation rejected with, "" for nothing
  result,             \* << >> or << the IdoxScrapeResult returned >>
  events,             \* the events onProgress has been invoked with
  filterIdx,          \* index of the status filter being applied
  checkedBoxes,       \* the filters whose checkbox check() has ticked
  shown,              \* the listing page the portal shows
  currentPage,        \* extractGrantsSimple: currentPage
  allGrants,          \* extractGrantsSimple: allGrants
  pageGrants,         \* extractGrantsSimple: pageGrants
  extractedPages,     \* number of calls of extractGrantsFromPage that returned
  sees,               \* the strategies that find the control for nextPageNum
  clickedVia,         \* the strategy whose click still awaits its content change
  triggers,           \* number of controls triggered so far
  detections,         \* number of next-page detections run so far
  grants,             \* the entry point's grants
  i,                  \* enrichGrants: i
  enrichedGrants,     \* enrichGrants: enrichedGrants
  caught,             \* the i whose iteration ran the catch block
  clientDisconnected, \* handler: clientDisconnected
  written,            \* what has been written to the response
  resEnded,           \* res.end() has been called
  responded,          \* the handler has run the code after its await
  race,               \* the branch of Promise.race that settled first
  stillOnLogin,       \* scrapeIdoxGrants: stillOnLogin
  input,              \* sanitizeText: the argument of the first call
  clean,              \* sanitizeText: the values returned so far
  requests,           \* server: the headers and endpoint of each request
  status,             \* server: the HTTP status each request was answered with
  ipc,                \* server: where each request's invocation is
  browserVar,         \* server: the variable `browser` of each invocation
  sessions,           \* server: the browser sessions launched so far
  accumulated,        \* server: the allGrants of each invocation
  returned,           \* server: the records each invocation returned
  twinCfg,            \* comparison: the second entry point and the options
  portalOutcomes,     \* comparison: how the n-th portal operation settles
  run,                \* comparison: the invocation running, 1 or 2; 3 after both
  inv,                \* comparison: the locals of the invocation running
  logs,               \* comparison: the portal operations each invocation did
  rets,               \* comparison: how each invocation settled
  dom,                \* extractGrants: what the page's locators match
  returns             \* extractGrants: << >> or << how the call settled >>

config == <<entry, cb, IDOX_USERNAME, IDOX_PASSWORD, enrich, portal>>

filterVars == <<filterIdx, checkedBoxes>>

detectVars == <<sees, clickedVia, triggers, detections>>

walkerVars == <<shown, currentPage, allGrants, pageGrants, extractedPages, detectVars>>

enrichVars == <<grants, i, enrichedGrants, caught>>

httpVars == <<clientDisconnected, resEnded, responded>>

loginVars == <<race, stillOnLogin>>

sanVars == <<input, clean>>

serverVars == <<requests, status, ipc, browserVar, sessions, accumulated, returned>>

twinVars == <<twinCfg, portalOutcomes, run, inv, logs, rets>>

extVars == <<dom, returns>>

\* the variables of the other specifications, which the scraper leaves alone
others == <<sanVars, serverVars, twinVars, extVars>>

scraperVars == <<config, pc, browser, netUsed, error, result, events, filterVars,
                 walkerVars, enrichVars, httpVars, written, loginVars>>

vars == <<scraperVars, others>>

\* the sanitizeText harness before any call
SanIdle ==
  /\ input = ""
  /\ clean = << >>

\* the server before any request
ServerIdle ==
  /\ requests = << >>
  /\ status = << >>
  /\ ipc = << >>
  /\ browserVar = << >>
  /\ sessions = << >>
  /\ accumulated = << >>
  /\ returned = << >>

\* the locals of an invocation that has not begun
InvStart ==
  [stmt |-> 1, k |-> 1, e |-> 1, launched |-> FALSE, grants |-> << >>, out |-> << >>]

\* no comparison of the entry points
TwinIdle ==
  /\ twinCfg = [mode |-> <<"scrapeIdoxGrants", "none">>, enrich |-> FALSE, found |-> 0]
  /\ portalOutcomes = << >>
  /\ run = 3
  /\ inv = InvStart
  /\ logs = << << >>, << >> >>
  /\ rets = << << >>, << >> >>

\* no call of the selector cascade
ExtIdle ==
  /\ dom = [elements |-> << >>, links |-> << >>]
  /\ returns = << >>

\* no invocation of the scraper
ScraperIdle ==
  /\ entry = "scrapeIdoxGrants"
  /\ cb = "none"
  /\ IDOX_USERNAME = ""
  /\ IDOX_PASSWORD = ""
  /\ enrich = FALSE
  /\ portal = [numPages |-> 0, perPage |-> 1, offset |-> 0, endless |-> FALSE,
                clean |-> FALSE]
  /\ pc = "idle"
  /\ browser = "null"
  /\ netUsed = FALSE
  /\ error = ""
  /\ result = << >>
  /\ events = << >>
  /\ filterIdx = 1
  /\ checkedBoxes = {}
  /\ shown = 0
  /\ currentPage = 1
  /\ allGrants = << >>
  /\ pageGrants = << >>
  /\ extractedPages = 0
  /\ sees = {}
  /\ clickedVia = ""
  /\ triggers = 0
  /\ detections = 0
  /\ grants = << >>
  /\ i = 0
  /\ enrichedGrants = << >>
  /\ caught = {}
  /\ clientDisconnected = FALSE
  /\ written = << >>
  /\ resEnded = FALSE
  /\ responded = FALSE
  /\ race = ""
  /\ stillOnLogin = FALSE

\* the listings an invocation with enrich=true is run against: those of one
\* page, and the end-to-end one
Enrichable(ptl) == ~ptl.endless /\ (ptl.numPages <= 1 \/ ptl = EndToEndPortal)

Modes ==
  { <<"scrapeIdoxGrants", "none">>,
    <<"scrapeIdoxGrantsWithProgress", "none">>,
    <<"scrapeIdoxGrantsWithProgress", "sse">>,
    <<"scrapeIdoxGrantsWithProgress", "throwing">> }

Init ==
  /\ \E m \in Modes : entry = m[1] /\ cb = m[2]
  /\ IDOX_USERNAME \in {"", "user@example.org"}
  /\ IDOX_PASSWORD \in {"", "secret"}
  /\ enrich \in BOOLEAN
  /\ portal \in Portals
  /\ enrich => Enrichable(portal)
  /\ pc = "start"
  /\ browser = "null"
  /\ netUsed = FALSE
  /\ error = ""
  /\ result = << >>
  /\ events = << >>
  /\ filterIdx = 1
  /\ checkedBoxes = {}
  /\ shown = 0
  /\ currentPage = 1
  /\ allGrants = << >>
  /\ pageGrants = << >>
  /\ extractedPages = 0
  /\ sees = {}
  /\ clickedVia = ""
  /\ triggers = 0
  /\ detections = 0
  /\ grants = << >>
  /\ i = 0
  /\ enrichedGrants = << >>
  /\ caught = {}
  /\ clientDisconnected = FALSE
  /\ written = IF cb = "sse" THEN << [type |-> "connected"] >> ELSE << >>
  /\ resEnded = FALSE
  /\ responded = FALSE
  /\ race = ""
  /\ stillOnLogin = FALSE
  /\ SanIdle
  /\ ServerIdle
  /\ TwinIdle
  /\ ExtIdle

(***************************************************************************)
(* The progress callback.                                                  *)
(***************************************************************************)
PhaseEvent(name) == [type |-> "phase", phase |-> name]

Emit_AfterDisconnect(evs) ==
  /\ events' = IF cb = "none" THEN events ELSE events \o evs
  /\ written' = IF cb = "sse" THEN written \o evs ELSE written

\* onProgress?.(ev) for each ev of evs: an absent callback receives nothing;
\* the handler's callback writes the event unless the client has gone
Emit(evs) ==
  /\ events' = IF cb = "none" THEN events ELSE events \o evs
  /\ written' = IF cb = "sse" /\ ~clientDisconnected THEN written \o evs ELSE written

\* may the callback throw when invoked
CbThrows == IF cb = "throwing" THEN BOOLEAN ELSE {FALSE}

(***************************************************************************)
(* try { ... } finally { if (browser) await browser.close() }              *)
(***************************************************************************)
AfterTry_CloseOnSuccessOnly(b, err) ==
  IF b = "open" /\ err = "" THEN "closing"
  ELSE IF err = "" THEN "done" ELSE "failed"

\* where control goes when the try block is left with browser b and error err
AfterTry(b, err) ==
  IF b = "open" THEN "closing"
  ELSE IF err = "" THEN "done" ELSE "failed"

\* throw err, with the browser as it is
Throw(err) ==
  /\ error' = err
  /\ pc' = AfterTry(browser, err)

CredentialsMissing_Both(u, p) == u = "" /\ p = ""

\* !IDOX_USERNAME || !IDOX_PASSWORD
CredentialsMissing(u, p) == u = "" \/ p = ""

(***************************************************************************)
(* The entry points, up to the extraction.  scrapeIdoxGrants is            *)
(* scrapeIdoxGrantsWithProgress without a callback: the same code without  *)
(* the onProgress calls.                                                   *)
(***************************************************************************)
\* the credentials check, the 'launching' event, then chromium.launch is awaited
CheckCredentials ==
  /\ pc = "start"
  /\ UNCHANGED <<config, others, loginVars, browser, netUsed, result, filterVars, walkerVars,
                 enrichVars, httpVars>>
  /\ IF CredentialsMissing(IDOX_USERNAME, IDOX_PASSWORD)
     THEN /\ Throw("ConfigurationError")
          /\ UNCHANGED <<events, written>>
     ELSE \E throws \in CbThrows :
            /\ Emit(<< PhaseEvent("launching") >>)
            /\ IF throws THEN Throw("Error:callback")
               ELSE pc' = "launch" /\ UNCHANGED error

\* chromium.launch, browser.newContext and context.newPage complete or reject;
\* then the 'login' event, and page.goto(IDOX_URL) is awaited
Launch ==
  /\ pc = "launch"
  /\ UNCHANGED <<config, others, loginVars, result, filterVars, walkerVars, enrichVars, httpVars>>
  /\ \E outcome \in {"ok", "launchFails", "contextFails"}, throws \in CbThrows :
       /\ browser' = IF outcome = "launchFails" THEN "null" ELSE "open"
       /\ IF outcome = "ok"
          THEN /\ Emit(<< PhaseEvent("login") >>)
               /\ IF throws
                  THEN /\ error' = "Error:callback"
                       /\ pc' = AfterTry("open", "Error:callback")
                       /\ UNCHANGED netUsed
                  ELSE /\ pc' = "goto"
                       /\ netUsed' = TRUE
                       /\ UNCHANGED error
          ELSE /\ throws = FALSE
               /\ error' = "Error:launch"
               /\ pc' = AfterTry(browser', "Error:launch")
               /\ UNCHANGED <<events, written, netUsed>>

\* page.goto(IDOX_URL, {timeout: 30000}) completes or times out
Goto ==
  /\ pc = "goto"
  /\ UNCHANGED <<config, others, loginVars, browser, netUsed, result, events, written, filterVars,
                 walkerVars, enrichVars, httpVars>>
  /\ \E outcome \in {"ok", "timeout"} :
       IF outcome = "ok" THEN pc' = "cookie" /\ UNCHANGED error
       ELSE Throw("NavigationTimeoutError")

\* the cookie banner: absent, accepted, or an error that is swallowed
Cookie ==
  /\ pc = "cookie"
  /\ UNCHANGED <<config, others, loginVars, browser, netUsed, error, result, events, written,
                 filterVars, walkerVars, enrichVars, httpVars>>
  /\ \E outcome \in {"absent", "accepted", "throws"} : pc' = "loginForm"

\* page.waitForSelector('#LogOnEmail') and the four page.fill calls
LoginForm ==
  /\ pc = "loginForm"
  /\ UNCHANGED <<config, others, loginVars, browser, netUsed, result, events, written, filterVars,
                 walkerVars, enrichVars, httpVars>>
  /\ \E outcome \in {"ok", "timeout"} :
       IF outcome = "ok" THEN pc' = "submit" /\ UNCHANGED error
       ELSE Throw("TimeoutError:loginForm")

\* Promise.all([page.click(submit), Promise.race([...])]): the race never
\* rejects, the click may
Submit ==
  /\ pc = "submit"
  /\ UNCHANGED <<config, others, stillOnLogin, browser, netUsed, result, events,
                 written, filterVars, walkerVars, enrichVars, httpVars>>
  /\ \E outcome \in {"url", "link", "delay", "clickTimeout"} :
       IF outcome # "clickTimeout"
       THEN /\ race' = outcome
            /\ pc' = "checkLogin"
            /\ UNCHANGED error
       ELSE /\ Throw("TimeoutError:submit")
            /\ UNCHANGED race

LoginFailed_UnlessUrlMatched(still, winner) == still /\ winner # "url"

\* if (stillOnLogin): the race's result is not consulted
LoginFailed(still, winner) == still

\* page.locator('#LogOnEmail').isVisible() answers; a login input that is
\* still visible is the authentication error; otherwise the 'searching'
\* event.  The race's result, which nothing reads afterwards, is dropped
\* once the check has passed.
CheckLogin ==
  /\ pc = "checkLogin"
  /\ UNCHANGED <<config, others, browser, netUsed, result, filterVars, walkerVars,
                 enrichVars, httpVars>>
  /\ \E visible \in BOOLEAN, throws \in CbThrows :
       /\ stillOnLogin' = visible
       /\ IF LoginFailed(visible, race)
          THEN /\ throws = FALSE
               /\ Throw("AuthenticationError")
               /\ UNCHANGED <<events, written, race>>
          ELSE /\ race' = ""
               /\ Emit(<< PhaseEvent("searching") >>)
               /\ IF throws THEN Throw("Error:callback")
                  ELSE pc' = "searchLink" /\ UNCHANGED error

\* searchLink.isVisible, searchLink.click, page.waitForLoadState
SearchLink ==
  /\ pc = "searchLink"
  /\ UNCHANGED <<config, others, loginVars, browser, netUsed, result, events, written, filterVars,
                 walkerVars, enrichVars, httpVars>>
  /\ \E outcome \in {"hidden", "loaded", "clickTimeout", "loadTimeout"} :
       IF outcome \in {"hidden", "loaded"} THEN pc' = "filters" /\ UNCHANGED error
       ELSE Throw("TimeoutError:searchLink")

AfterFilter_StopOnError(idx, outcome) ==
  IF idx = Len(STATUS_FILTERS) \/ outcome = "throws" THEN "submitSearch" ELSE "filters"

\* where the for loop goes after the iteration for STATUS_FILTERS[idx]: the
\* catch block is empty, so the outcome of the iteration plays no part
AfterFilter(idx, outcome) ==
  IF idx = Len(STATUS_FILTERS) THEN "submitSearch" ELSE "filters"

\* one iteration of for (const status of STATUS_FILTERS) { try {...} catch {} }:
\* isVisible answers false, or check() ticks the box, or one of them rejects
ApplyFilter ==
  /\ pc = "filters"
  /\ UNCHANGED <<config, others, loginVars, browser, netUsed, error, result, events, written,
                 walkerVars, enrichVars, httpVars>>
  /\ \E outcome \in {"hidden", "checked", "throws"} :
       /\ checkedBoxes' = IF outcome = "checked" THEN checkedBoxes \cup {filterIdx}
                          ELSE checkedBoxes
       /\ filterIdx' = filterIdx + 1
       /\ pc' = AfterFilter(filterIdx, outcome)

\* the search button inside try/catch, then the 'extracting' event; the
\* walker then awaits the page.evaluate that reads "Page x of y".  The filter
\* form is left behind here, and with it the record of its ticked boxes
SubmitSearch ==
  /\ pc = "submitSearch"
  /\ UNCHANGED <<config, others, loginVars, browser, netUsed, result, filterIdx, currentPage,
                 allGrants, pageGrants, extractedPages, detectVars, enrichVars, httpVars>>
  /\ \E outcome \in {"hidden", "submitted", "throws"}, throws \in CbThrows :
       /\ checkedBoxes' = {}
       /\ shown' = FirstShown(portal)
       /\ Emit(<< PhaseEvent("extracting") >>)
       /\ IF throws THEN Throw("Error:callback")
          ELSE pc' = "pageInfo" /\ UNCHANGED error

(***************************************************************************)
(* The pagination walker, extractGrantsSimple.                             *)
(***************************************************************************)
\* the page.evaluate that reads the page info; allGrants = [], currentPage = 1
PageInfo ==
  /\ pc = "pageInfo"
  /\ UNCHANGED <<config, others, loginVars, browser, netUsed, result, events, written, filterVars,
                 shown, pageGrants, extractedPages, detectVars, enrichVars, httpVars>>
  /\ \E outcome \in {"ok", "throws"} :
       IF outcome = "ok"
       THEN /\ allGrants' = << >>
            /\ currentPage' = 1
            /\ pc' = "walkLoop"
            /\ UNCHANGED error
       ELSE /\ Throw("Error:pageInfo")
            /\ UNCHANGED <<allGrants, currentPage>>

LoopCondition_OffByOne(cp) == cp <= MAX_PAGES + 1

\* while (currentPage <= MAX_PAGES)
LoopCondition(cp) == cp <= MAX_PAGES

Accumulate_Prepend(all, found) == found \o all

Accumulate_Distinct(all, found) ==
  all \o SelectSeq(found, LAMBDA g : \A k \in 1..Len(all) : all[k] # g)

\* allGrants.push(...pageGrants)
Accumulate(all, found) == all \o found

AfterPage_DetectAnyway(found) == "detect"

\* if (pageGrants.length === 0) break
AfterPage(found) == IF found = << >> THEN "walkDone" ELSE "detect"

\* the loop test; extractGrantsFromPage(page); break on an empty page;
\* allGrants.push(...pageGrants)
WalkLoop ==
  /\ pc = "walkLoop"
  /\ UNCHANGED <<config, others, loginVars, browser, netUsed, result, events, written, filterVars,
                 shown, currentPage, sees, triggers, detections, enrichVars, httpVars>>
  /\ clickedVia' = ""
  /\ IF ~LoopCondition(currentPage)
     THEN /\ pc' = "walkDone"
          /\ UNCHANGED <<error, allGrants, pageGrants, extractedPages>>
     ELSE \E outcome \in {"ok", "throws"} :
            IF outcome = "throws"
            THEN /\ Throw("Error:extract")
                 /\ UNCHANGED <<allGrants, pageGrants, extractedPages>>
            ELSE /\ pageGrants' = extractGrantsFromPage(ListingItems(portal, shown))
                 /\ extractedPages' = extractedPages + 1
                 /\ allGrants' = Accumulate(allGrants, pageGrants')
                 /\ pc' = AfterPage(pageGrants')
                 /\ UNCHANGED error

\* the strategies that the portal lets find the control for page m: by its
\* title attribute, by its accessible name, by the raw scan of ul.pagination
SeesOptions(m) ==
  IF ControlExists(portal, m) THEN SUBSET {"title", "role", "scan"} ELSE {{}}

FirstFound_ScanFirst(found) ==
  IF "scan" \in found THEN "scan"
  ELSE IF "title" \in found THEN "title"
  ELSE IF "role" \in found THEN "role"
  ELSE "none"

\* hasNext / linkExists: the title locator first, the role locator if
\* (!hasNext), the raw scan if (!hasNext) again
FirstFound(found) ==
  IF "title" \in found THEN "title"
  ELSE IF "role" \in found THEN "role"
  ELSE IF "scan" \in found THEN "scan"
  ELSE "none"

\* next-page detection for nextPageNum = currentPage + 1.  The two isVisible
\* calls end in .catch(() => false); the page.evaluate of the scan, and the
\* one that logs the pagination HTML when nothing was found, can reject
Detect ==
  /\ pc = "detect"
  /\ UNCHANGED <<config, others, loginVars, browser, netUsed, result, events, written, filterVars,
                 shown, currentPage, allGrants, pageGrants, extractedPages, clickedVia,
                 triggers, enrichVars, httpVars>>
  /\ detections' = detections + 1
  /\ \E found \in SeesOptions(currentPage + 1), outcome \in {"ok", "throws"} :
       /\ outcome = "throws" => "title" \notin found /\ "role" \notin found
       /\ IF outcome = "throws"
          THEN Throw("Error:detect") /\ UNCHANGED sees
          ELSE /\ sees' = found
               /\ pc' = CASE FirstFound(found) \in {"title", "role"} -> "clickLocator"
                          [] FirstFound(found) = "scan" -> "clickEvaluate"
                          [] OTHER -> "walkDone"
               /\ UNCHANGED error

\* await nextLink.click(), outside any try
ClickLocator ==
  /\ pc = "clickLocator"
  /\ UNCHANGED <<config, others, loginVars, browser, netUsed, result, events, written, filterVars,
                 currentPage, allGrants, pageGrants, extractedPages, detections, enrichVars,
                 httpVars>>
  /\ \E outcome \in {"ok", "timeout"} :
       IF outcome = "ok"
       THEN /\ shown' = ShowPage(portal, shown, currentPage + 1)
            /\ sees' = {}
            /\ clickedVia' = FirstFound(sees)
            /\ triggers' = triggers + 1
            /\ pc' = "waitChange"
            /\ UNCHANGED error
       ELSE /\ Throw("TimeoutError:nextClick")
            /\ sees' = {}
            /\ UNCHANGED <<shown, clickedVia, triggers>>

\* the page.evaluate that clicks the link found by the raw scan
ClickEvaluate ==
  /\ pc = "clickEvaluate"
  /\ UNCHANGED <<config, others, loginVars, browser, netUsed, result, events, written, filterVars,
                 currentPage, allGrants, pageGrants, extractedPages, detections, enrichVars,
                 httpVars>>
  /\ \E outcome \in {"ok", "throws"} :
       IF outcome = "ok"
       THEN /\ shown' = ShowPage(portal, shown, currentPage + 1)
            /\ sees' = {}
            /\ clickedVia' = FirstFound(sees)
            /\ triggers' = triggers + 1
            /\ pc' = "waitChange"
            /\ UNCHANGED error
       ELSE /\ Throw("Error:clickEvaluate")
            /\ sees' = {}
            /\ UNCHANGED <<shown, clickedVia, triggers>>

\* the predicate of page.waitForFunction: the first title is new and not empty
ContentChanged(oldTitle, items) ==
  FirstLinkTitle(items) # oldTitle /\ Len(FirstLinkTitle(items)) > 0

AfterWait_WaitOn(outcome) ==
  IF outcome = "changed" THEN "smallDelay" ELSE "waitChange"

AfterWait_StopOnTimeout(outcome) ==
  IF outcome = "changed" THEN "smallDelay" ELSE "walkDone"

\* try { await page.waitForFunction(...) } catch { await page.waitForTimeout(2000) }
AfterWait(outcome) == IF outcome = "changed" THEN "smallDelay" ELSE "settle"

\* page.waitForFunction(..., firstGrantTitle, {timeout: 15000}) resolves, or
\* rejects into the catch that awaits the settle delay
WaitChange ==
  /\ pc = "waitChange"
  /\ UNCHANGED <<config, others, loginVars, browser, netUsed, error, result, events, written,
                 filterVars, shown, currentPage, allGrants, pageGrants, extractedPages, sees,
                 triggers, detections, enrichVars, httpVars>>
  /\ \E outcome \in {"changed", "timeout"} :
       /\ outcome = "changed" =>
            ContentChanged(pageGrants[1].title, ListingItems(portal, shown))
       /\ pc' = AfterWait(outcome)
       /\ clickedVia' = IF outcome = "changed" THEN "" ELSE clickedVia

\* page.waitForTimeout(2000) in the catch
Settle ==
  /\ pc = "settle"
  /\ UNCHANGED <<config, others, loginVars, browser, netUsed, result, events, written, filterVars,
                 walkerVars, enrichVars, httpVars>>
  /\ \E outcome \in {"ok", "throws"} :
       IF outcome = "ok" THEN pc' = "smallDelay" /\ UNCHANGED error
       ELSE Throw("Error:settle")

NextCursor_Skip(cp) == cp + 2

\* currentPage++
NextCursor(cp) == cp + 1

\* page.waitForTimeout(500); currentPage++; the next iteration starts
SmallDelay ==
  /\ pc = "smallDelay"
  /\ UNCHANGED <<config, others, loginVars, browser, netUsed, result, events, written, filterVars,
                 shown, allGrants, pageGrants, extractedPages, detectVars, enrichVars,
                 httpVars>>
  /\ \E outcome \in {"ok", "throws"} :
       IF outcome = "ok"
       THEN /\ currentPage' = NextCursor(currentPage)
            /\ pc' = "walkLoop"
            /\ UNCHANGED error
       ELSE /\ Throw("Error:smallDelay")
            /\ UNCHANGED currentPage

(***************************************************************************)
(* Back in the entry point: the events after the extraction.               *)
(***************************************************************************)
ExtractedEvent(n) == [type |-> "phase", phase |-> "extracted", grantsFound |-> n]

EnrichingStartEvent_Extracted(n) ==
  [type |-> "phase", phase |-> "extracted", totalGrants |-> n]

EnrichingStartEvent(n) ==
  [type |-> "phase", phase |-> "enriching_start", totalGrants |-> n]

WalkerResult_LastPage(all, last) == last

\* return allGrants, however the loop was left
WalkerResult(all, last) == all

\* return allGrants; let grants = ...; the 'extracted' event
WalkDone ==
  /\ pc = "walkDone"
  /\ UNCHANGED <<config, others, loginVars, browser, netUsed, result, filterVars, walkerVars,
                 i, enrichedGrants, caught, httpVars>>
  /\ \E throws \in CbThrows :
       /\ grants' = WalkerResult(allGrants, pageGrants)
       /\ Emit(<< ExtractedEvent(Len(grants')) >>)
       /\ IF throws THEN Throw("Error:callback")
          ELSE pc' = "afterExtract" /\ UNCHANGED error

ShouldEnrich_EnrichOnly(en, gs) == en

\* if (enrich && grants.length > 0)
ShouldEnrich(en, gs) == en /\ Len(gs) > 0

\* the 'enriching_start' event and the call of enrichGrants, or neither
AfterExtract ==
  /\ pc = "afterExtract"
  /\ UNCHANGED <<config, others, loginVars, browser, netUsed, result, filterVars, walkerVars,
                 grants, caught, httpVars>>
  /\ IF ShouldEnrich(enrich, grants)
     THEN \E throws \in CbThrows :
            /\ Emit(<< EnrichingStartEvent(Len(grants)) >>)
            /\ i' = 0
            /\ enrichedGrants' = << >>
            /\ IF throws THEN Throw("Error:callback")
               ELSE pc' = "enrichLoop" /\ UNCHANGED error
     ELSE /\ pc' = "return"
          /\ UNCHANGED <<error, events, written, i, enrichedGrants>>

(***************************************************************************)
(* The enrichment pass, enrichGrants.                                      *)
(***************************************************************************)
ProgressEvent(k, total, title) ==
  [type |-> "progress", current |-> k, total |-> total,
   grantTitle |-> Substring0(title, TITLE_IN_PROGRESS),
   percentage |-> Percentage(k, total)]

GrantEvent(g) == [type |-> "grant", data |-> g]

Catch_Retry(pushed) ==
  /\ enrichedGrants' = Append(pushed, grants[i + 1])
  /\ caught' = caught \cup {i}
  /\ i' = i
  /\ pc' = "enrichLoop"

\* the catch block: enrichedGrants.push(grant), then the next iteration
Catch(pushed) ==
  /\ enrichedGrants' = Append(pushed, grants[i + 1])
  /\ caught' = caught \cup {i}
  /\ i' = i + 1
  /\ pc' = "enrichLoop"

\* the loop test; the progress event, outside the try; page.goto(grant.link)
\* is awaited.  After the loop, return enrichedGrants; grants = ...
EnrichLoop ==
  /\ pc = "enrichLoop"
  /\ UNCHANGED <<config, others, loginVars, browser, netUsed, result, filterVars, walkerVars,
                 i, enrichedGrants, caught, httpVars>>
  /\ IF i < Len(grants)
     THEN \E throws \in CbThrows :
            /\ Emit(<< ProgressEvent(i + 1, Len(grants), grants[i + 1].title) >>)
            /\ UNCHANGED grants
            /\ IF throws THEN Throw("Error:callback")
               ELSE pc' = "enrichGoto" /\ UNCHANGED error
     ELSE /\ grants' = enrichedGrants
          /\ pc' = "return"
          /\ UNCHANGED <<error, events, written>>

\* page.goto(grant.link, {timeout: 30000}) resolves, whatever the status of
\* the answer, or rejects
EnrichGoto ==
  /\ pc = "enrichGoto"
  /\ UNCHANGED <<config, others, loginVars, browser, netUsed, error, result, events, written,
                 filterVars, walkerVars, grants, httpVars>>
  /\ \E outcome \in {"ok", "fails"} :
       IF outcome = "ok"
       THEN pc' = "enrichEval" /\ UNCHANGED <<i, enrichedGrants, caught>>
       ELSE Catch(enrichedGrants)

\* page.evaluate returns the details or rejects; enrichedGrants.push(enrichedGrant);
\* the 'grant' event; page.waitForTimeout(500) is awaited
EnrichEval ==
  /\ pc = "enrichEval"
  /\ UNCHANGED <<config, others, loginVars, browser, netUsed, error, result, filterVars, walkerVars,
                 grants, httpVars>>
  /\ \E outcome \in {"ok", "throws"}, throws \in CbThrows :
       IF outcome = "throws"
       THEN /\ throws = FALSE
            /\ Catch(enrichedGrants)
            /\ UNCHANGED <<events, written>>
       ELSE LET enrichedGrant ==
                  EnrichedGrant(grants[i + 1], Details(DetailPage(grants[i + 1].link)))
            IN  /\ Emit(<< GrantEvent(enrichedGrant) >>)
                /\ IF throws
                   THEN Catch(Append(enrichedGrants, enrichedGrant))
                   ELSE /\ enrichedGrants' = Append(enrichedGrants, enrichedGrant)
                        /\ pc' = "enrichDelay"
                        /\ UNCHANGED <<i, caught>>

\* page.waitForTimeout(500), inside the try, completes or rejects
EnrichDelay ==
  /\ pc = "enrichDelay"
  /\ UNCHANGED <<config, others, loginVars, browser, netUsed, error, result, events, written,
                 filterVars, walkerVars, grants, httpVars>>
  /\ \E outcome \in {"ok", "fails"} :
       IF outcome = "ok"
       THEN /\ i' = i + 1
            /\ pc' = "enrichLoop"
            /\ UNCHANGED <<enrichedGrants, caught>>
       ELSE Catch(enrichedGrants)

(***************************************************************************)
(* The result and the finally block.                                       *)
(***************************************************************************)
TotalFound_BeforeEnrich(gs, extracted) == Len(extracted)

\* totalFound: grants.length
TotalFound(gs, extracted) == Len(gs)

\* filtersUsed.status: the filters whose checkbox lookup resolved
ScrapeResult_FiltersApplied(gs, extracted, en) ==
  [grants |-> gs,
   totalFound |-> TotalFound(gs, extracted),
   filtersUsed |->
     [status |-> SelectSeq(STATUS_FILTERS,
                           LAMBDA f : \E k \in 1..Len(STATUS_FILTERS) :
                                        /\ STATUS_FILTERS[k] = f
                                        /\ 7 + k <= Len(portalOutcomes)
                                        /\ portalOutcomes[7 + k] = "ok"),
      areaOfWork |-> AREA_OF_WORK_FILTERS],
   enriched |-> en]

\* enriched: whether the pass had anything to enrich
ScrapeResult_EnrichedIfAny(gs, extracted, en) ==
  [grants |-> gs,
   totalFound |-> TotalFound(gs, extracted),
   filtersUsed |-> [status |-> STATUS_FILTERS, areaOfWork |-> AREA_OF_WORK_FILTERS],
   enriched |-> en /\ Len(gs) > 0]

ScrapeResult(gs, extracted, en) ==
  [grants |-> gs,
   totalFound |-> TotalFound(gs, extracted),
   filtersUsed |-> [status |-> STATUS_FILTERS, areaOfWork |-> AREA_OF_WORK_FILTERS],
   enriched |-> en]

\* return { grants, totalFound, filtersUsed, ..., enriched }
Return ==
  /\ pc = "return"
  /\ UNCHANGED <<config, others, loginVars, browser, netUsed, error, events, written, filterVars,
                 walkerVars, enrichVars, httpVars>>
  /\ result' = << ScrapeResult(grants, allGrants, enrich) >>
  /\ pc' = AfterTry(browser, "")

\* await browser.close(), then the promise settles
CloseBrowser ==
  /\ pc = "closing"
  /\ UNCHANGED <<config, others, loginVars, netUsed, error, result, events, written, filterVars,
                 walkerVars, enrichVars, httpVars>>
  /\ browser' = "closed"
  /\ pc' = IF error = "" THEN "done" ELSE "failed"

(***************************************************************************)
(* The handler of GET /api/idox/grants/stream.                             *)
(***************************************************************************)
\* a handler of 'close' that abandons the scrape where it stands
ClientDisconnect_Abort ==
  /\ cb = "sse"
  /\ ~clientDisconnected
  /\ ~resEnded
  /\ clientDisconnected' = TRUE
  /\ pc' = "failed"
  /\ UNCHANGED <<config, others, loginVars, browser, netUsed, error, result, events, written,
                 filterVars, walkerVars, enrichVars, resEnded, responded>>

\* req.on('close', ...)
ClientDisconnect ==
  /\ cb = "sse"
  /\ ~clientDisconnected
  /\ ~resEnded
  /\ clientDisconnected' = TRUE
  /\ UNCHANGED <<config, others, loginVars, pc, browser, netUsed, error, result, events, written,
                 filterVars, walkerVars, enrichVars, resEnded, responded>>

TerminalEvent_NoneOnFailure(p, res, err) ==
  IF p = "done"
  THEN << [type |-> "complete", totalFound |-> res[1].totalFound,
           enriched |-> res[1].enriched] >>
  ELSE << >>

\* what the handler writes after the await: the 'complete' event in the try,
\* the 'error' event in the catch
TerminalEvent(p, res, err) ==
  IF p = "done"
  THEN << [type |-> "complete", totalFound |-> res[1].totalFound,
           enriched |-> res[1].enriched] >>
  ELSE << [type |-> "error", message |-> err] >>

\* after await scrapeIdoxGrantsWithProgress: the 'complete' or the 'error'
\* event, then res.end(), each unless the client has gone
StreamFinish ==
  /\ cb = "sse"
  /\ pc \in {"done", "failed"}
  /\ ~responded
  /\ responded' = TRUE
  /\ written' = IF clientDisconnected THEN written
                ELSE written \o TerminalEvent(pc, result, error)
  /\ resEnded' = ~clientDisconnected
  /\ UNCHANGED <<config, others, loginVars, pc, browser, netUsed, error, result, events, filterVars,
                 walkerVars, enrichVars, clientDisconnected>>

Next ==
  \/ CheckCredentials
  \/ Launch
  \/ Goto
  \/ Cookie
  \/ LoginForm
  \/ Submit
  \/ CheckLogin
  \/ SearchLink
  \/ ApplyFilter
  \/ SubmitSearch
  \/ PageInfo
  \/ WalkLoop
  \/ Detect
  \/ ClickLocator
  \/ ClickEvaluate
  \/ WaitChange
  \/ Settle
  \/ SmallDelay
  \/ WalkDone
  \/ AfterExtract
  \/ EnrichLoop
  \/ EnrichGoto
  \/ EnrichEval
  \/ EnrichDelay
  \/ Return
  \/ CloseBrowser
  \/ ClientDisconnect
  \/ StreamFinish

Spec == Init /\ [][Next]_vars

(***************************************************************************)
(* A streaming request, with the scheduling the code has: every awaited    *)
(* browser operation settles within its timeout and the handler's          *)
(* continuation then runs.  When the client disconnects is not the         *)
(* program's to decide.                                                    *)
(***************************************************************************)
\* which records the listing holds does not bear on how the stream ends: one
\* listing of each shape
StreamInit == Init /\ cb = "sse" /\ portal.offset \in {0, 2}

\* a step of the program, as opposed to one of the client
ProgramStep == Next /\ UNCHANGED clientDisconnected

LiveSpec == StreamInit /\ [][Next]_vars /\ WF_vars(ProgramStep)

(***************************************************************************)
(* The blocking call, scrapeIdoxGrants(options), taken by itself: no       *)
(* callback and no HTTP handler around it.  Every awaited browser          *)
(* operation settles, by resolving or by rejecting, and the continuation   *)
(* then runs.                                                              *)
(***************************************************************************)
BlockingInit == Init /\ entry = "scrapeIdoxGrants"

\* the steps of the invocation itself
ScrapeNext ==
  \/ CheckCredentials
  \/ Launch
  \/ Goto
  \/ Cookie
  \/ LoginForm
  \/ Submit
  \/ CheckLogin
  \/ SearchLink
  \/ ApplyFilter
  \/ SubmitSearch
  \/ PageInfo
  \/ WalkLoop
  \/ Detect
  \/ ClickLocator
  \/ ClickEvaluate
  \/ WaitChange
  \/ Settle
  \/ SmallDelay
  \/ WalkDone
  \/ AfterExtract
  \/ EnrichLoop
  \/ EnrichGoto
  \/ EnrichEval
  \/ EnrichDelay
  \/ Return
  \/ CloseBrowser

BlockingSpec == BlockingInit /\ [][ScrapeNext]_vars /\ WF_vars(ScrapeNext)

(***************************************************************************)
(* sanitizeText on its own: an input is drawn, the function is applied to  *)
(* it, and then once more to what it returned.                             *)
(***************************************************************************)
MaxTokens == 3

\* the fragments the inputs are made of
Tokens == {"<b>", "&amp;", "&lt;", "&gt;", "lt;", "amp;", " ", "A"}

RECURSIVE Concat(_)
Concat(ts) == IF ts = << >> THEN "" ELSE Head(ts) \o Concat(Tail(ts))

Examples ==
  { "",
    "<b>A&amp;B</b>   C",
    "&lt;b&gt;A",
    "A&nbsp; B",
    "&nbsp;A\n",
    "A \n\t B",
    "x < y",
    "&amp;&lt;&gt;&quot;&#39;&ndash;&mdash;&pound;&nbsp;x" }

Inputs ==
  Examples \cup
  { Concat(ts) : ts \in UNION { [1..n -> Tokens] : n \in 1..MaxTokens } }

SanInit ==
  /\ ScraperIdle
  /\ ServerIdle
  /\ TwinIdle
  /\ ExtIdle
  /\ input \in Inputs
  /\ clean = << >>

\* sanitizeText(text), then sanitizeText of the value returned
Sanitize ==
  /\ Len(clean) < 2
  /\ clean' = Append(clean, sanitizeText(IF clean = << >> THEN input
                                         ELSE clean[Len(clean)]))
  /\ UNCHANGED <<input, scraperVars, serverVars, twinVars, extVars>>

SanNext == Sanitize

SanSpec == SanInit /\ [][SanNext]_vars

(***************************************************************************)
(* The server: two requests, each through authenticateApiKey and then, if  *)
(* let through, one invocation of the scraper, reduced to what it does     *)
(* with its browser session and its record list.  The invocations          *)
(* interleave at their awaits.                                             *)
(***************************************************************************)
API_KEY == "idox-scraper-wlpp-2025-secure-key-p4n8q1"

ALLOWED_ORIGINS ==
  { "https://west-linton-play-park.vercel.app",
    "https://west-linton-play-park-git-main-chris-projects.vercel.app",
    "http://localhost:3000",
    "http://localhost:3001" }

\* s.endsWith(p)
EndsWith(s, p) == Len(s) >= Len(p) /\ SubSeq(s, Len(s) - Len(p) + 1, Len(s)) = p

\* /^https:\/\/west-linton-play-park.*\.vercel\.app$/.test(origin)
MatchesDeployment(origin) ==
  /\ StartsWith(origin, "https://west-linton-play-park")
  /\ EndsWith(origin, ".vercel.app")
  /\ Len(origin) >= Len("https://west-linton-play-park") + Len(".vercel.app")
  /\ ~Includes(origin, "\n")

\* the loop over ALLOWED_ORIGINS
IsValidOrigin(origin) == origin \in ALLOWED_ORIGINS \/ MatchesDeployment(origin)

\* authHeader.startsWith('Bearer ') ? authHeader.slice(7) : authHeader
Token(authHeader) ==
  IF StartsWith(authHeader, "Bearer ")
  THEN SubSeq(authHeader, 8, Len(authHeader))
  ELSE authHeader

\* the status authenticateApiKey answers with, 0 when it calls next(); an
\* absent header is ""
authenticateApiKey(authHeader, origin) ==
  IF origin # "" /\ IsValidOrigin(origin) THEN 0
  ELSE IF authHeader = "" THEN 401
  ELSE IF Token(authHeader) # API_KEY THEN 403
  ELSE 0

Invocations == {1, 2}

AuthHeaders == {"", API_KEY, "Bearer " \o API_KEY, "Bearer wrong-key"}

Origins == {"", "http://localhost:3000", "https://evil.example"}

Requests ==
  [endpoint : {"/api/idox/grants", "/api/idox/grants/stream"},
   authorization : AuthHeaders,
   origin : Origins]

ServerInit ==
  /\ ScraperIdle
  /\ SanIdle
  /\ TwinIdle
  /\ ExtIdle
  /\ requests \in [Invocations -> Requests]
  /\ status = [k \in Invocations |-> 0]
  /\ ipc = [k \in Invocations |-> "received"]
  /\ browserVar = [k \in Invocations |-> 0]
  /\ sessions = << >>
  /\ accumulated = [k \in Invocations |-> << >>]
  /\ returned = [k \in Invocations |-> << >>]

Local_ModuleLevel(k) == 1

\* `let browser` and `const allGrants` are declared inside the functions:
\* each invocation has its own
Local(k) == k

\* the middleware: an answer, or next() and with it the handler's call of the
\* scraper, up to chromium.launch
Authenticate(k) ==
  /\ ipc[k] = "received"
  /\ LET answer == authenticateApiKey(requests[k].authorization, requests[k].origin)
     IN  /\ status' = [status EXCEPT ![k] = answer]
         /\ ipc' = [ipc EXCEPT ![k] = IF answer = 0 THEN "launch" ELSE "rejected"]
  /\ UNCHANGED <<requests, browserVar, sessions, accumulated, returned>>

\* browser = await chromium.launch(...) resolves with a new session or
\* rejects; the walker starts with allGrants = []
HandlerLaunch(k) ==
  /\ ipc[k] = "launch"
  /\ \E outcome \in {"ok", "fails"} :
       IF outcome = "ok"
       THEN /\ sessions' = Append(sessions, [owner |-> k, open |-> TRUE,
                                              usedBy |-> {}, closedBy |-> {}])
            /\ browserVar' = [browserVar EXCEPT ![Local(k)] = Len(sessions) + 1]
            /\ accumulated' = [accumulated EXCEPT ![Local(k)] = << >>]
            /\ ipc' = [ipc EXCEPT ![k] = "extract"]
       ELSE /\ ipc' = [ipc EXCEPT ![k] = "finally"]
            /\ UNCHANGED <<sessions, browserVar, accumulated>>
  /\ UNCHANGED <<requests, status, returned>>

\* one awaited operation on the page of the invocation's browser: a listing
\* page is extracted and its records pushed, or the operation rejects
HandlerExtract(k) ==
  /\ ipc[k] = "extract"
  /\ Len(accumulated[Local(k)]) < MaxPortalPages
  /\ \E outcome \in {"ok", "throws"} :
       /\ sessions' = [sessions EXCEPT ![browserVar[Local(k)]].usedBy = @ \cup {k}]
       /\ IF outcome = "ok"
          THEN /\ accumulated' =
                    [accumulated EXCEPT ![Local(k)] =
                       Append(@, [by |-> k, page |-> Len(@) + 1])]
               /\ UNCHANGED ipc
          ELSE /\ ipc' = [ipc EXCEPT ![k] = "finally"]
               /\ UNCHANGED accumulated
  /\ UNCHANGED <<requests, status, browserVar, returned>>

\* return { grants, ... }
HandlerReturn(k) ==
  /\ ipc[k] = "extract"
  /\ returned' = [returned EXCEPT ![k] = << accumulated[Local(k)] >>]
  /\ ipc' = [ipc EXCEPT ![k] = "finally"]
  /\ UNCHANGED <<requests, status, browserVar, sessions, accumulated>>

\* finally { if (browser) await browser.close() }, then res.json(result) or
\* res.status(500)
HandlerFinally(k) ==
  /\ ipc[k] = "finally"
  /\ sessions' = IF browserVar[Local(k)] = 0 THEN sessions
                 ELSE [sessions EXCEPT ![browserVar[Local(k)]].open = FALSE,
                                       ![browserVar[Local(k)]].closedBy = @ \cup {k}]
  /\ status' = [status EXCEPT ![k] = IF returned[k] # << >> THEN 200 ELSE 500]
  /\ ipc' = [ipc EXCEPT ![k] = "answered"]
  /\ UNCHANGED <<requests, browserVar, accumulated, returned>>

ServerNext ==
  \E k \in Invocations :
     /\ \/ Authenticate(k)
        \/ HandlerLaunch(k)
        \/ HandlerExtract(k)
        \/ HandlerReturn(k)
        \/ HandlerFinally(k)
     /\ UNCHANGED <<scraperVars, sanVars, twinVars, extVars>>

ServerSpec == ServerInit /\ [][ServerNext]_vars

(***************************************************************************)
(* The two entry points side by side.  scrapeIdoxGrants(options) is run    *)
(* to its end; then, against a portal that settles its n-th operation the  *)
(* same way, scrapeIdoxGrantsWithProgress(options, onProgress), without a   *)
(* callback or with one.  Each function is taken statement by statement:   *)
(* the operations it awaits and, in the second, the onProgress?.() calls   *)
(* between them.  The credentials are present; the walker is one awaited   *)
(* call that returns the first records of the listing.                     *)
(***************************************************************************)
\* scrapeIdoxGrants: what it awaits, in order
BlockingStatements ==
  <<"launch", "goto", "cookie", "loginForm", "submit", "checkLogin", "searchLink",
    "filter", "filter", "submitSearch", "extract", "enrich", "return">>

\* scrapeIdoxGrantsWithProgress: the same, and its onProgress?.() calls
ProgressStatements ==
  <<"emit:launching", "launch", "emit:login", "goto", "cookie", "loginForm", "submit",
    "checkLogin", "emit:searching", "searchLink", "filter", "filter", "submitSearch",
    "emit:extracting", "extract", "emit:extracted", "emit:enriching_start", "enrich",
    "return">>

\* the body of the for loop of enrichGrants, for one record; the enriched
\* record is pushed when "evaluate" has resolved
EnrichSteps == <<"emit:progress", "detail", "evaluate", "emit:grant", "delay">>

\* awaited inside a try whose catch is empty
Swallowed == {"cookie", "filter", "submitSearch"}

\* awaited inside the try of the enrichment loop
InEnrichTry == {"detail", "evaluate", "delay"}

Mode == IF run = 1 THEN <<"scrapeIdoxGrants", "none">> ELSE twinCfg.mode

\* the statement the running invocation is at
Stmt ==
  IF Mode[1] = "scrapeIdoxGrants" THEN BlockingStatements[inv.stmt]
  ELSE ProgressStatements[inv.stmt]

\* the operation it is at
Op == IF Stmt = "enrich" THEN EnrichSteps[inv.e] ELSE Stmt

IsEmit(op) == StartsWith(op, "emit:")

Calls_Unguarded(mode) == TRUE

\* onProgress?.(...): the call is made when a callback was passed
Calls(mode) == mode[2] # "none"

\* the next statement, or the next step of the loop body
Advance(v) ==
  IF Stmt = "enrich" THEN [v EXCEPT !.e = @ + 1] ELSE [v EXCEPT !.stmt = @ + 1]

\* the end of an iteration of the enrichment loop with `pushed` as the
\* output so far; after the last one, grants = enrichedGrants
NextRecord(v, pushed) ==
  IF v.k = Len(v.grants)
  THEN [v EXCEPT !.grants = pushed, !.out = << >>, !.stmt = @ + 1, !.k = 1, !.e = 1]
  ELSE [v EXCEPT !.out = pushed, !.k = @ + 1, !.e = 1]

\* the catch block of the enrichment loop
Caught(v) == NextRecord(v, Append(v.out, v.grants[v.k]))

\* the invocation settles with `how`; the finally block closes the browser
Finally(how, did) ==
  /\ rets' = [rets EXCEPT ![run] = << how >>]
  /\ logs' = IF inv.launched THEN [did EXCEPT ![run] = Append(@, "close")] ELSE did
  /\ run' = run + 1
  /\ inv' = InvStart

TwinInit ==
  /\ twinCfg \in [mode : Modes \ {<<"scrapeIdoxGrants", "none">>}, enrich : BOOLEAN,
                  found : 0..MaxPerPage]
  /\ portalOutcomes = << >>
  /\ run = 1
  /\ inv = InvStart
  /\ logs = << << >>, << >> >>
  /\ rets = << << >>, << >> >>
  /\ ScraperIdle
  /\ SanIdle
  /\ ServerIdle
  /\ ExtIdle

\* if (enrich && grants.length > 0) is false: neither the event nor the call
TwinSkipEnrich ==
  /\ run \in {1, 2}
  /\ Stmt \in {"emit:enriching_start", "enrich"}
  /\ ~ShouldEnrich(twinCfg.enrich, inv.grants)
  /\ inv' = [inv EXCEPT !.stmt = @ + 1]
  /\ UNCHANGED <<twinCfg, portalOutcomes, run, logs, rets>>

\* an onProgress?.() call: not made, or the callback returns, or it throws;
\* outside the try of the enrichment loop that fails the invocation, inside
\* it the catch block runs, after the enriched record was pushed
TwinEmit ==
  /\ run \in {1, 2}
  /\ IsEmit(Op)
  /\ Stmt \in {"emit:enriching_start", "enrich"} => ShouldEnrich(twinCfg.enrich, inv.grants)
  /\ UNCHANGED <<twinCfg, portalOutcomes>>
  /\ \E throws \in IF ~Calls(Mode) THEN {FALSE}
                   ELSE IF Mode[2] = "none" THEN {TRUE}
                   ELSE IF Mode[2] = "throwing" THEN BOOLEAN
                   ELSE {FALSE} :
       IF ~throws THEN inv' = Advance(inv) /\ UNCHANGED <<run, logs, rets>>
       ELSE IF Op = "emit:grant" THEN inv' = Caught(inv) /\ UNCHANGED <<run, logs, rets>>
       ELSE Finally([ok |-> FALSE, value |-> "Error:callback"], logs)

\* an awaited operation: it settles as the portal settles its n-th operation
TwinAwait ==
  /\ run \in {1, 2}
  /\ ~IsEmit(Op)
  /\ Op # "return"
  /\ Stmt = "enrich" => ShouldEnrich(twinCfg.enrich, inv.grants)
  /\ UNCHANGED twinCfg
  /\ LET n == Len(logs[run]) + 1
         did == [logs EXCEPT ![run] = Append(@, Op)]
     IN  \E o \in IF n <= Len(portalOutcomes) THEN {portalOutcomes[n]}
                  ELSE {"ok", "rejects"} :
           /\ portalOutcomes' = IF n <= Len(portalOutcomes) THEN portalOutcomes
                                ELSE Append(portalOutcomes, o)
           /\ IF o = "rejects" /\ Op \notin Swallowed /\ Op \notin InEnrichTry
              THEN Finally([ok |-> FALSE, value |-> Op], did)
              ELSE /\ logs' = did
                   /\ UNCHANGED <<run, rets>>
                   /\ inv' =
                        CASE o = "rejects" /\ Op \in InEnrichTry -> Caught(inv)
                          [] o = "rejects" -> Advance(inv)
                          [] Op = "launch" -> Advance([inv EXCEPT !.launched = TRUE])
                          [] Op = "extract" ->
                               Advance([inv EXCEPT !.grants =
                                          MapGrants(SubSeq(CleanPool, 1, twinCfg.found))])
                          [] Op = "evaluate" ->
                               Advance([inv EXCEPT !.out =
                                          Append(@, EnrichedGrant(inv.grants[inv.k],
                                                   Details(DetailPage(inv.grants[inv.k].link))))])
                          [] Op = "delay" -> NextRecord(inv, inv.out)
                          [] OTHER -> Advance(inv)

\* return { grants, totalFound, filtersUsed, enriched }
TwinReturn ==
  /\ run \in {1, 2}
  /\ Op = "return"
  /\ UNCHANGED <<twinCfg, portalOutcomes>>
  /\ Finally([ok |-> TRUE,
              value |-> ScrapeResult(inv.grants, inv.grants, twinCfg.enrich)], logs)

TwinNext ==
  /\ \/ TwinSkipEnrich
     \/ TwinEmit
     \/ TwinAwait
     \/ TwinReturn
  /\ UNCHANGED <<scraperVars, sanVars, serverVars, extVars>>

TwinSpec == TwinInit /\ [][TwinNext]_vars

(***************************************************************************)
(* Properties.                                                             *)
(***************************************************************************)
Settled == pc \in {"done", "failed"}

Succeeded == pc = "done"

\* enrichGrants has returned to the entry point
EnrichReturned == pc = "return" /\ ShouldEnrich(enrich, allGrants)

\* the number of 'progress' events among the first k events
ProgressCount(k) == Cardinality({j \in 1..k : events[j].type = "progress"})

PhaseOrder ==
  <<"launching", "login", "searching", "extracting", "extracted", "enriching_start">>

Phases == SelectSeq(events, LAMBDA e : e.type = "phase")

NonEmptyRecords(gs) == \A k \in 1..Len(gs) : gs[k].title # "" /\ gs[k].link # ""

\* C1: an invocation that has settled, by returning or by failing at any
\* step, holds no open browser session: a browser that was launched has
\* been closed.
C1_SessionClosedOnEveryExit == Settled => browser \in {"null", "closed"}

C1_Witness ==
  /\ pc = "failed"
  /\ error = "TimeoutError:nextClick"
  /\ browser = "closed"

\* C2: with the username or the password absent, the invocation does nothing
\* but fail with the configuration error: no browser is launched, no request
\* is sent, and the callback receives no event.
C2_MissingCredentialsFailFirst ==
  (IDOX_USERNAME = "" \/ IDOX_PASSWORD = "") =>
     /\ browser = "null"
     /\ ~netUsed
     /\ events = << >>
     /\ pc \in {"start", "failed"}
     /\ pc = "failed" => error = "ConfigurationError"

C2_Witness ==
  /\ IDOX_USERNAME # ""
  /\ IDOX_PASSWORD = ""
  /\ cb = "sse"
  /\ pc = "failed"
  /\ error = "ConfigurationError"

\* C3: the walker extracts at most 60 listing pages in one invocation.
C3_AtMostSixtyPages == extractedPages <= MAX_PAGES

C3_Witness ==
  /\ portal.endless
  /\ extractedPages = MAX_PAGES
  /\ currentPage = MAX_PAGES + 1
  /\ pc = "walkDone"

\* C4: the totalFound of every returned result is the number of records in
\* its grants.
C4_TotalFoundIsLength ==
  result # << >> => result[1].totalFound = Len(result[1].grants)

C4_Witness ==
  /\ Succeeded
  /\ enrich
  /\ caught # {}
  /\ result[1].totalFound >= 2

\* C5: when enrichGrants returns, its output has the length of its input and
\* position k holds the record of input k (same title and link), whichever
\* step failed for whichever record.
C5_SameLengthAndOrder ==
  EnrichReturned =>
     /\ Len(grants) = Len(allGrants)
     /\ \A k \in 1..Len(allGrants) :
          /\ grants[k].title = allGrants[k].title
          /\ grants[k].link = allGrants[k].link

\* C6: when enrichGrants returns (here without a callback that throws), a
\* record whose iteration failed is in the output once, at its position, as
\* it was before enrichment, and every other record is there enriched.
C6_FailedRecordKeptOnce ==
  (EnrichReturned /\ cb # "throwing") =>
     /\ Len(grants) = Len(allGrants)
     /\ \A k \in 1..Len(allGrants) :
          grants[k] = IF (k - 1) \in caught
                      THEN allGrants[k]
                      ELSE EnrichedGrant(allGrants[k],
                                         Details(DetailPage(allGrants[k].link)))

\* C7: no record with an empty title or an empty link is ever accumulated,
\* enriched or returned.
C7_NoEmptyTitleOrLink ==
  /\ NonEmptyRecords(allGrants)
  /\ NonEmptyRecords(grants)
  /\ NonEmptyRecords(enrichedGrants)
  /\ result # << >> => NonEmptyRecords(result[1].grants)

C7_Witness ==
  /\ Succeeded
  /\ enrich
  /\ Len(result[1].grants) >= 1
  /\ \E k \in 1..portal.perPage :
       /\ HasTitleLink(ListingItems(portal, 1)[k])
       /\ Trim(ListingItems(portal, 1)[k].title) = ""

\* C8: a timeout on the search link, an error in the extraction of a listing
\* page and a timeout clicking a detected next-page control are absorbed:
\* none of them is ever what the invocation fails with.
C8_OtherFailuresAbsorbed ==
  error \notin {"TimeoutError:searchLink", "Error:extract", "TimeoutError:nextClick"}

\* C9: the phase events received are, in this order and each at most once,
\* launching, login, searching, extracting, extracted, enriching_start; a
\* successful run has received the first five, and the sixth exactly when it
\* enriched; every progress and record event comes after enriching_start.
C9_PhaseOrder ==
  /\ Len(Phases) <= Len(PhaseOrder)
  /\ \A k \in 1..Len(Phases) : Phases[k].phase = PhaseOrder[k]
  /\ (Succeeded /\ cb # "none") =>
        Len(Phases) = IF ShouldEnrich(enrich, allGrants) THEN 6 ELSE 5
  /\ \A k \in 1..Len(events) :
        events[k].type \in {"progress", "grant"} =>
           \E j \in 1..(k - 1) :
              events[j].type = "phase" /\ events[j].phase = "enriching_start"

C9_Witness ==
  /\ Succeeded
  /\ cb = "sse"
  /\ Len(Phases) = 6
  /\ \E k \in 1..Len(events) : events[k].type = "grant"

\* C10: within the enrichment pass (here with a callback that does not
\* throw) the progress events count 1, 2, ..., the percentage never decreases
\* and is 100 when the pass returns; each record has at most one record
\* event, which follows its progress event, and only a record whose
\* iteration did not fail has one.
C10_ProgressAndRecordEvents ==
  cb # "throwing" =>
  /\ \A k \in 1..Len(events) :
        events[k].type = "progress" => events[k].current = ProgressCount(k)
  /\ \A j, k \in 1..Len(events) :
        (j < k /\ events[j].type = "progress" /\ events[k].type = "progress")
           => events[j].percentage <= events[k].percentage
  /\ (EnrichReturned /\ cb # "none") =>
        \E k \in 1..Len(events) :
           /\ events[k].type = "progress"
           /\ events[k].current = Len(allGrants)
           /\ events[k].percentage = 100
  /\ \A k \in 1..Len(events) :
        events[k].type = "grant" =>
           /\ k > 1
           /\ events[k - 1].type = "progress"
           /\ events[k].data.link = allGrants[ProgressCount(k)].link
           /\ (ProgressCount(k) - 1) \notin caught

\* the 'complete' and 'error' events written to the response
Terminals == SelectSeq(written, LAMBDA e : e.type \in {"complete", "error"})

\* C11: on the streaming endpoint, once the handler has observed the client's
\* disconnect, no step writes anything to the response, whatever the scrape
\* is doing and however it ends.
C11_NothingWrittenAfterDisconnect ==
  [][clientDisconnected => written' = written]_vars

C11_Witness ==
  /\ cb = "sse"
  /\ clientDisconnected
  /\ responded
  /\ pc = "done"
  /\ Len(events) >= Len(written) + 1

\* C12: a streaming request whose client stays connected is always ended,
\* after exactly one terminal event, which is the last thing written: the
\* 'complete' event if the scrape succeeded and the 'error' event if it
\* failed.
C12_StreamEndsAfterOneTerminal ==
  /\ [](/\ Len(Terminals) <= 1
        /\ Len(Terminals) = 1 =>
              /\ resEnded
              /\ written[Len(written)] = Terminals[1]
              /\ Terminals[1].type = (IF pc = "done" THEN "complete" ELSE "error")
        /\ resEnded => Len(Terminals) = 1
        /\ (responded /\ ~clientDisconnected) => resEnded)
  /\ <>(clientDisconnected \/ resEnded)

C12_Witness ==
  /\ resEnded
  /\ pc = "failed"
  /\ error = "TimeoutError:nextClick"
  /\ Len(written) >= 6
  /\ written[Len(written)].type = "error"

\* C13: sanitizing what sanitizeText returned gives the same string again.
C13_SanitizeIdempotent == Len(clean) = 2 => clean[2] = clean[1]

\* C14: sanitizeText strips the tags, then decodes the nine entities, then
\* collapses each whitespace run to one space, then trims: tags are gone
\* before an encoded angle bracket is decoded, a decoded non-breaking space
\* is collapsed and trimmed like any other; '<b>A&amp;B</b>   C' gives
\* 'A&B C' and the empty string gives the empty string.
C14_SanitizeSteps ==
  clean # << >> =>
     /\ clean[1] = Trim(CollapseWhitespace(DecodeEntities(StripTags(input))))
     /\ input = "" => clean[1] = ""
     /\ input = "<b>A&amp;B</b>   C" => clean[1] = "A&B C"
     /\ input = "&lt;b&gt;A" => clean[1] = "<b>A"
     /\ input = "A&nbsp; B" => clean[1] = "A B"
     /\ input = "&nbsp;A\n" => clean[1] = "A"
     /\ input = "A \n\t B" => clean[1] = "A B"
     /\ input = "x < y" => clean[1] = "x < y"
     /\ input = "&amp;&lt;&gt;&quot;&#39;&ndash;&mdash;&pound;&nbsp;x"
           => clean[1] = "&<>\"'" \o NDASH \o MDASH \o POUND \o " x"
     /\ ~Includes(clean[1], "  ")
     /\ ~Includes(clean[1], "\n")
     /\ clean[1] = Trim(clean[1])

C14_Witness ==
  /\ input = "<b>A&amp;B</b>   C"
  /\ clean = << "A&B C" >>

\* the record the extractor makes of item j of listing page p
RecordAt(p, j) == GrantOfItem(ListingItems(portal, p)[j])

\* C15: against the portal of three listing pages of two records each, whose
\* three pages the walker has been served, a run with enrich=false returns
\* totalFound 6, enriched false, the two status strings in
\* filtersUsed.status, and the six records by page and then by position.
C15_EndToEndListing ==
  (Succeeded /\ portal = EndToEndPortal /\ ~enrich /\ extractedPages = 3) =>
     /\ result[1].totalFound = 6
     /\ result[1].enriched = FALSE
     /\ result[1].filtersUsed.status = << "Open for Applications", "Future" >>
     /\ Len(result[1].grants) = 6
     /\ \A p \in 1..3, j \in 1..2 :
          result[1].grants[2 * (p - 1) + j] = RecordAt(p, j)
     /\ [k \in 1..6 |-> result[1].grants[k].title]
          = << "One", "Two", "Three", "Four", "Five", "Six" >>

C15_Witness ==
  /\ Succeeded
  /\ portal = EndToEndPortal
  /\ ~enrich
  /\ extractedPages = 3
  /\ result[1].totalFound = 6
  /\ result[1].grants[6].title = "Six"

\* C16: against the same portal with enrich=true, where the detail page of
\* one record is answered 404 and no awaited operation rejects, the run
\* returns totalFound 6, that record as it was before enrichment, and the
\* other five with a description.
C16_NotFoundRecordUnenriched ==
  (Succeeded /\ portal = EndToEndPortal /\ enrich /\ extractedPages = 3
     /\ caught = {}) =>
     /\ result[1].totalFound = 6
     /\ \A k \in 1..6 :
          IF NotFound(allGrants[k].link)
          THEN result[1].grants[k] = allGrants[k]
          ELSE result[1].grants[k].description # << >>

\* C17: when the login input is still visible after the submission,
\* whichever branch of the race settled first, the invocation fails with the
\* authentication error: no search, filter, extraction or enrichment step
\* has run or runs, the callback has received nothing after 'login', and
\* once the invocation has settled the browser is closed.
C17_StillOnLoginIsFatal ==
  stillOnLogin =>
     /\ error = "AuthenticationError"
     /\ pc \in {"closing", "failed"}
     /\ race \in {"url", "link", "delay"}
     /\ filterIdx = 1
     /\ shown = 0
     /\ extractedPages = 0
     /\ allGrants = << >>
     /\ grants = << >>
     /\ enrichedGrants = << >>
     /\ result = << >>
     /\ \A k \in 1..Len(events) :
          events[k].type = "phase" /\ events[k].phase \in {"launching", "login"}
     /\ pc = "failed" => browser = "closed"

C17_Witness ==
  /\ stillOnLogin
  /\ race = "url"
  /\ cb = "sse"
  /\ pc = "failed"
  /\ error = "AuthenticationError"
  /\ browser = "closed"

RECURSIVE Walked(_, _)
\* the records of the first k extractions on a portal that keeps offering a
\* next page: its pages in order, then its last page again and again
Walked(ptl, k) ==
  IF k = 0 THEN << >>
  ELSE Walked(ptl, k - 1)
         \o extractGrantsFromPage(ListingItems(ptl, Min(k, ptl.numPages)))

\* C18: when the walker has left its loop because currentPage passed 60, it
\* has extracted 60 pages, allGrants holds the records of all of them, no
\* error was raised by the stop, and the invocation (here without a callback
\* that throws) ends successfully with exactly these records.
C18_CapIsNotAnError ==
  currentPage > MAX_PAGES =>
     /\ extractedPages = MAX_PAGES
     /\ allGrants = Walked(portal, MAX_PAGES)
     /\ error \in {"", "Error:callback"}
     /\ cb # "throwing" => error = ""
     /\ (Settled /\ cb # "throwing") =>
          /\ pc = "done"
          /\ result[1].grants = allGrants
          /\ result[1].totalFound = Len(allGrants)

C18_Witness ==
  /\ currentPage > MAX_PAGES
  /\ pc = "done"
  /\ portal.numPages = 2
  /\ Len(result[1].grants) > MAX_PAGES

\* the sessions launched by invocation k
SessionsOf(k) == {n \in 1..Len(sessions) : sessions[n].owner = k}

\* C19: with two requests in flight, each invocation launches at most one
\* session, and exactly one once its launch has resolved; a session is used
\* and closed by no invocation but the one that launched it; and the records
\* an invocation returns were all accumulated by itself.
C19_SessionsNotShared ==
  /\ \A n \in 1..Len(sessions) :
        /\ sessions[n].usedBy \subseteq {sessions[n].owner}
        /\ sessions[n].closedBy \subseteq {sessions[n].owner}
  /\ \A k \in Invocations :
        /\ Cardinality(SessionsOf(k)) <= 1
        /\ ipc[k] = "extract" => Cardinality(SessionsOf(k)) = 1
        /\ (ipc[k] = "answered" /\ status[k] \in {200, 500}) =>
              \A n \in SessionsOf(k) : ~sessions[n].open
        /\ returned[k] # << >> =>
              \A n \in 1..Len(returned[k][1]) :
                 /\ returned[k][1][n].by = k
                 /\ returned[k][1][n].page = n

C19_Witness ==
  /\ ipc[1] = "answered"
  /\ ipc[2] = "answered"
  /\ status[1] = 200
  /\ status[2] = 200
  /\ Len(sessions) = 2
  /\ sessions[1].owner = 2
  /\ sessions[1].closedBy = {2}
  /\ sessions[2].usedBy = {1}
  /\ Len(returned[1][1]) = 2
  /\ Len(returned[2][1]) = 1

\* C20: on both endpoints a scrape is started only for a request whose
\* Authorization header carries the API key, bare or after 'Bearer '; a
\* request without the header is answered 401, one with a wrong key 403.
C20_ScrapeNeedsApiKey ==
  \A k \in Invocations :
     /\ ipc[k] \notin {"received", "rejected"} =>
           Token(requests[k].authorization) = API_KEY
     /\ (ipc[k] # "received" /\ requests[k].authorization = "") =>
           ipc[k] = "rejected" /\ status[k] = 401
     /\ (ipc[k] # "received" /\ requests[k].authorization # ""
           /\ Token(requests[k].authorization) # API_KEY) =>
           ipc[k] = "rejected" /\ status[k] = 403


(***************************************************************************)
(* C21.  Applying the filters never fails the invocation.                  *)
(***************************************************************************)
\* C21: while the filters are applied nothing is thrown: every iteration of
\* the filter loop, whatever its checkbox did (hidden, ticked, lookup or
\* check() rejected), moves on to the next filter and leaves the boxes
\* ticked so far as they are; after the last filter the search submit is
\* tried, and whatever it did (hidden, submitted, rejected) the walker is
\* entered next, with no error
C21_FiltersNeverFail ==
  [][ /\ (pc = "filters" /\ pc' # pc) =>
           /\ pc' = "submitSearch"
           /\ filterIdx = Len(STATUS_FILTERS)
      /\ pc = "filters" =>
           /\ filterIdx' = filterIdx + 1
           /\ filterIdx \in 1..Len(STATUS_FILTERS)
           /\ checkedBoxes \subseteq checkedBoxes'
           /\ checkedBoxes' \subseteq checkedBoxes \cup {filterIdx}
           /\ error' = ""
      /\ pc = "submitSearch" =>
           /\ filterIdx = Len(STATUS_FILTERS) + 1
           /\ pc' = "pageInfo"
           /\ error' = ""
    ]_vars

\* the first checkbox rejected, the second one was ticked all the same, and
\* the search submit is about to be tried
C21_Witness ==
  /\ pc = "submitSearch"
  /\ checkedBoxes = {Len(STATUS_FILTERS)}
  /\ Len(STATUS_FILTERS) > 1
  /\ error = ""


(***************************************************************************)
(* C23.  The walker's records are the concatenation of the page results.   *)
(***************************************************************************)
\* the listing page the k-th extraction of a walk is served: the walker moves
\* one page on per extraction, and a control triggered beyond the last page
\* leaves the last page shown
VisitedPage(k) == Min(k, portal.numPages)

\* does record g occur at two different positions of gs
Twice(gs) == \E a, b \in 1..Len(gs) : a < b /\ gs[a] = gs[b]

\* C23: what the walker has returned to the entry point is the
\* concatenation, in visit order, of what the extractor returned for each of
\* the pages the walk was served; nothing is dropped, reordered or
\* de-duplicated; and while the walk is on, the page being served is the one
\* the concatenation takes next.
C23_ConcatenationInVisitOrder ==
  /\ pc = "afterExtract" =>
       /\ grants = Walked(portal, extractedPages)
       /\ allGrants = grants
  /\ pc = "walkLoop" => shown = VisitedPage(extractedPages + 1)

\* the last page was served a second and a third time and its records are in
\* the returned list each time
C23_Witness ==
  /\ pc = "afterExtract"
  /\ portal.numPages = 1
  /\ extractedPages >= 3
  /\ Twice(grants)
  /\ Len(grants) = extractedPages * Len(extractGrantsFromPage(ListingItems(portal, 1)))


(***************************************************************************)
(* C24.  An empty page ends the walk at once.                              *)
(***************************************************************************)
\* the last extraction of the walk returned no record
EndedOnEmptyPage == extractedPages >= 1 /\ pageGrants = << >>

\* C24: once the extractor has returned no record for the current page, the
\* walker is out of its loop without an error of its own: no detection was
\* run for that page (detections stay one behind the extractions), no
\* control was triggered for it, the cursor and the page shown are those of
\* the empty page, no further page is extracted, and what the walker hands
\* to the entry point is what it had accumulated before, possibly nothing.
C24_EmptyPageEndsWalk ==
  EndedOnEmptyPage =>
    /\ pc \notin {"walkLoop", "detect", "clickLocator", "clickEvaluate", "waitChange",
                  "settle", "smallDelay"}
    /\ detections = extractedPages - 1
    /\ triggers = extractedPages - 1
    /\ currentPage = extractedPages
    /\ shown = VisitedPage(extractedPages)
    /\ sees = {} /\ clickedVia = ""
    /\ pc = "walkDone" => error = ""
    /\ pc = "afterExtract" =>
         /\ grants = allGrants
         /\ grants = Walked(portal, extractedPages - 1)

\* the second page came back empty while the portal had a control for a
\* third one on offer: the walk ended there with the records of page one
C24_Witness ==
  /\ EndedOnEmptyPage
  /\ pc = "afterExtract"
  /\ extractedPages = 2
  /\ ControlExists(portal, 3)
  /\ grants # << >>


(***************************************************************************)
(* C25.  Next-page detection: three strategies in a fixed order.           *)
(***************************************************************************)
LocatorStrategies == {"title", "role"}

\* C25: a detection step tries the title-attribute locator, then the
\* accessible-name locator, then the raw scan, each only if the ones before
\* found nothing: the locator click is prepared exactly when one of the two
\* locators finds the control, the in-page click exactly when only the scan
\* does, and the walk ends, with nothing triggered, when none does.  The
\* control is then triggered once, through the locator of the first
\* strategy that found it or through the in-page click, and the cursor
\* moves only after exactly one trigger for the page it leaves.
C25_StrategiesInOrder ==
  [][ /\ (pc = "detect" /\ pc' # pc /\ error' = "") =>
           /\ detections' = detections + 1
           /\ triggers' = triggers
           /\ sees' \in SeesOptions(currentPage + 1)
           /\ pc' = "clickLocator" <=> sees' \cap LocatorStrategies # {}
           /\ pc' = "clickEvaluate" <=> sees' = {"scan"}
           /\ pc' = "walkDone" <=> sees' = {}
           /\ pc' = "walkDone" => shown' = shown /\ currentPage' = currentPage
      /\ (pc = "clickLocator" /\ pc' = "waitChange") =>
           /\ triggers' = triggers + 1
           /\ clickedVia' = IF "title" \in sees THEN "title" ELSE "role"
      /\ (pc = "clickEvaluate" /\ pc' = "waitChange") =>
           /\ triggers' = triggers + 1
           /\ clickedVia' = "scan"
      /\ triggers' # triggers => pc \in {"clickLocator", "clickEvaluate"}
      /\ currentPage' # currentPage => triggers = currentPage
    ]_vars

\* on the way to a third page: the title locator found nothing, the
\* accessible-name locator did, and its control has been triggered, the
\* second control of the walk after two detections
C25_Witness ==
  /\ pc = "waitChange"
  /\ clickedVia = "role"
  /\ triggers = 2
  /\ currentPage = 2
  /\ detections = 2


(***************************************************************************)
(* C26.  A content-change signal that does not arrive is not a failure.    *)
(***************************************************************************)
\* the control was triggered and page.waitForFunction has timed out
SignalMissed == clickedVia # "" /\ pc \in {"settle", "smallDelay", "walkLoop"}

\* C26: after a control has been triggered, through a locator or through
\* the in-page click, the wait for the content change raises nothing,
\* whether the signal arrives or not; when the page cannot have changed the
\* wait ends in the settle delay; the settle delay, once it has elapsed,
\* leads to the short delay; that one advances the cursor by one and starts
\* the next iteration; and the next iteration extracts the page that is
\* shown then, changed or not.
C26_MissedSignalGoesOn ==
  [][ /\ pc = "waitChange" =>
           /\ clickedVia \in {"title", "role", "scan"}
           /\ error' = ""
           /\ pc' \in {"smallDelay", "settle"}
           /\ pc' = "settle" => clickedVia' = clickedVia
           /\ ~ContentChanged(pageGrants[1].title, ListingItems(portal, shown)) =>
                pc' = "settle"
           /\ UNCHANGED <<currentPage, shown, allGrants>>
      /\ (pc = "settle" /\ error' = "") =>
           /\ pc' = "smallDelay"
           /\ UNCHANGED <<currentPage, shown, allGrants, clickedVia>>
      /\ (pc = "smallDelay" /\ SignalMissed /\ error' = "") =>
           /\ pc' = "walkLoop"
           /\ currentPage' = currentPage + 1
           /\ UNCHANGED <<shown, allGrants, clickedVia>>
      /\ (pc = "walkLoop" /\ SignalMissed /\ LoopCondition(currentPage)
            /\ error' = "") =>
           /\ pageGrants' = extractGrantsFromPage(ListingItems(portal, shown))
           /\ extractedPages' = extractedPages + 1
    ]_vars

\* in-page click path: the signal did not arrive, the settle delay was
\* waited, the cursor has advanced, and the next extraction is about to run
\* on a page that is the one shown before
C26_Witness ==
  /\ SignalMissed
  /\ pc = "walkLoop"
  /\ clickedVia = "scan"
  /\ currentPage = 3
  /\ shown = 2
  /\ error = ""

\* the same on the locator-click path
C26_WitnessLocator ==
  /\ SignalMissed
  /\ pc = "walkLoop"
  /\ clickedVia \in LocatorStrategies
  /\ currentPage = 3
  /\ shown = 2
  /\ error = ""


(***************************************************************************)
(* C27.  The page cursor.                                                  *)
(***************************************************************************)
\* C27: the cursor is 1 from the start, lies between 1 and 61 throughout,
\* and is one more than the number of controls triggered, except between a
\* trigger and the advance that follows it, where the two are equal: it
\* moves by one, after a trigger, and by nothing else.  While a next page
\* is looked for and its control triggered, the cursor equals the number of
\* pages extracted so far, so the page looked for, currentPage + 1, is that
\* number plus one; at the top of the loop it is one ahead of it.
C27_CursorDiscipline ==
  /\ currentPage \in 1..(MAX_PAGES + 1)
  /\ currentPage \in {triggers, triggers + 1}
  /\ pc \in {"waitChange", "settle", "smallDelay"} =>
       /\ currentPage = triggers
       /\ currentPage = extractedPages
  /\ pc \in {"start", "pageInfo", "walkLoop", "detect", "clickLocator", "clickEvaluate",
             "walkDone", "afterExtract", "return", "done"} =>
       currentPage = triggers + 1
  /\ pc \in {"detect", "clickLocator", "clickEvaluate"} =>
       /\ currentPage = extractedPages
       /\ currentPage <= MAX_PAGES
  /\ pc = "walkLoop" => currentPage = extractedPages + 1
  /\ extractedPages \in {currentPage - 1, currentPage}

\* the cursor has reached 61 after sixty triggers and the walk is over
C27_Witness ==
  /\ currentPage = MAX_PAGES + 1
  /\ triggers = MAX_PAGES
  /\ extractedPages = MAX_PAGES
  /\ pc = "walkDone"


(***************************************************************************)
(* C28.  Every invocation terminates.                                      *)
(***************************************************************************)
\* C28: when every awaited browser operation settles, the blocking call
\* returns or fails: the walker, once entered, leaves its loop or fails,
\* after at most 60 extractions and 60 detections; the enrichment, once
\* entered, comes back or the call fails, its index never passes the
\* number of records it was given, and when it comes back it has run one
\* iteration for each of them.
C28_EveryInvocationTerminates ==
  /\ <>Settled
  /\ (pc = "walkLoop") ~> (pc = "walkDone" \/ error # "")
  /\ (pc = "enrichLoop") ~> (pc = "return" \/ error # "")
  /\ [](/\ extractedPages <= MAX_PAGES
        /\ detections <= MAX_PAGES
        /\ triggers <= MAX_PAGES
        /\ i <= Len(allGrants)
        /\ EnrichReturned => i = Len(allGrants))

\* a call that walked more than one page and enriched every record has
\* returned
C28_Witness ==
  /\ pc = "done"
  /\ entry = "scrapeIdoxGrants"
  /\ enrich
  /\ extractedPages >= 2
  /\ i = Len(allGrants)
  /\ i >= 2
  /\ browser = "closed"


(***************************************************************************)
(* C29.  Enrichment: one progress event per record, in input order.        *)
(***************************************************************************)
ProgressEvents == SelectSeq(events, LAMBDA e : e.type = "progress")

Enriching == pc \in {"enrichLoop", "enrichGoto", "enrichEval", "enrichDelay"}

\* record k of the input has been appended to the output
Appended(k) == \E n \in 1..Len(enrichedGrants) : enrichedGrants[n].link = grants[k].link

\* C29: with a callback, the j-th progress event of an enrichment is the
\* one of input record j, so the records are taken in input order, one
\* event each; at the top of the loop there are as many progress events as
\* iterations done, inside an iteration one more, and when enrichGrants has
\* returned, one per input record whether its iteration went through the
\* try or the catch.  When the navigation to a record's detail page is
\* about to start, that record's progress event is the last event emitted,
\* and every record before it has already been appended to the output.
C29_OneProgressPerRecord ==
  /\ (cb # "none" /\ Enriching) =>
       /\ Len(ProgressEvents) = IF pc = "enrichLoop" THEN i ELSE i + 1
       /\ \A j \in 1..Len(ProgressEvents) :
            /\ ProgressEvents[j].current = j
            /\ ProgressEvents[j].total = Len(grants)
            /\ ProgressEvents[j].grantTitle = Substring0(grants[j].title, 60)
  /\ (cb # "none" /\ pc = "enrichGoto") =>
       events[Len(events)] = ProgressEvents[i + 1]
  /\ Enriching =>
       /\ i <= Len(grants)
       /\ Len(enrichedGrants) >= i
       /\ \A k \in 1..i : Appended(k)
  /\ (cb # "none" /\ EnrichReturned) =>
       /\ Len(ProgressEvents) = Len(allGrants)
       /\ i = Len(allGrants)

\* enrichGrants has returned after four records, the second of which went
\* through the catch: four progress events all the same
C29_Witness ==
  /\ EnrichReturned
  /\ cb = "sse"
  /\ Len(allGrants) = 4
  /\ caught = {1}
  /\ Len(ProgressEvents) = 4


(***************************************************************************)
(* C30.  Enrichment leaves the known fields alone.                         *)
(***************************************************************************)
KnownFields == {"title", "funder", "maxAmount", "deadline", "status", "link"}

EnrichedFields == {"description", "eligibility", "howToApply", "contactInfo", "additionalInfo"}

\* out may be what enrichment made of the input record in
Preserves(in, out) ==
  /\ \A f \in KnownFields : out[f] = in[f]
  /\ \/ out.areaOfWork = in.areaOfWork
     \/ /\ out.areaOfWork # ""
        /\ out.areaOfWork = sanitizeText(Details(DetailPage(in.link)).areaOfWork)
  /\ \A f \in EnrichedFields : out[f] = << >> \/ (Len(out[f]) = 1 /\ out[f][1] # "")

\* C30: after every iteration of the enrichment loop and when enrichGrants
\* has returned, every record it has put out preserves an input record: its
\* title, funder, maxAmount, deadline, status and link are that record's,
\* its areaOfWork is that record's unless the detail page gave a non-empty
\* sanitized value, and each enriched field is absent or a non-empty
\* string.  As long as no iteration has gone through the catch, the input
\* record preserved is the one at the same position; the same holds for the
\* records of the result returned.
C30_KnownFieldsPreserved ==
  /\ pc \in {"enrichLoop", "return"} =>
       \A n \in 1..Len(enrichedGrants) :
          /\ \E k \in 1..Len(allGrants) : Preserves(allGrants[k], enrichedGrants[n])
          /\ caught = {} => Preserves(allGrants[n], enrichedGrants[n])
  /\ (Succeeded /\ result[1].enriched) =>
       \A n \in 1..Len(result[1].grants) :
          \E k \in 1..Len(allGrants) : Preserves(allGrants[k], result[1].grants[n])

\* a result in which one record got its areaOfWork and a description from
\* its detail page while its eligibility stayed absent, and another kept
\* its areaOfWork because the page's value was blank
C30_Witness ==
  /\ Succeeded
  /\ result[1].enriched
  /\ caught = {}
  /\ \E n, m \in 1..Len(result[1].grants) :
       /\ result[1].grants[n].areaOfWork = "Sport, Play"
       /\ result[1].grants[n].description # << >>
       /\ result[1].grants[n].eligibility = << >>
       /\ result[1].grants[n].title = allGrants[n].title
       /\ result[1].grants[m].areaOfWork = allGrants[m].areaOfWork
       /\ result[1].grants[m].contactInfo = << "a@b" >>


(***************************************************************************)
(* C22.  The callback only observes.                                       *)
(***************************************************************************)
BothSettled == run = 3 /\ rets[1] # << >> /\ rets[2] # << >>

\* C22: for the same portal behaviour, scrapeIdoxGrants and
\* scrapeIdoxGrantsWithProgress, called without a callback or with any
\* callback, perform the same sequence of portal operations and settle the
\* same way: the same grants, totalFound, filtersUsed and enriched.
C22_CallbackOnlyObserves ==
  BothSettled => logs[1] = logs[2] /\ rets[1] = rets[2]

\* the same for a callback that is absent or returns normally from every
\* call
C22_QuietCallbackOnlyObserves ==
  (BothSettled /\ twinCfg.mode[2] # "throwing") =>
     logs[1] = logs[2] /\ rets[1] = rets[2]

C22_QuietWitness ==
  /\ BothSettled
  /\ twinCfg.mode[2] = "sse"
  /\ rets[2][1].ok
  /\ Len(rets[2][1].value.grants) = 2
  /\ rets[2][1].value.enriched


(***************************************************************************)
(* C31.  The politeness delay between two records.                         *)
(***************************************************************************)
\* the iteration for grants[k + 1] ended with page.waitForTimeout(500)
\* resolved: the delay is the last statement of the try, so an iteration
\* either gets through it or runs the catch block
DelayedAfter(k) == k \notin caught

\* C31: when the navigation to the detail page of a record other than the
\* first is about to start, the politeness delay has been waited since the
\* visit to the record before it, whether that record was enriched or not.
C31_DelayBetweenRecords ==
  (pc = "enrichGoto" /\ i >= 1) => DelayedAfter(i - 1)

(***************************************************************************)
(* The selector cascade, extractGrants, on its own: a page is drawn, given *)
(* by what each of its locators matches, and the function is applied to    *)
(* it once.                                                                *)
(***************************************************************************)
MaxElements == 1

\* the container selectors, in the order they are tried
selectors ==
  << ".scheme-card", ".funding-item", "tr.scheme-row", ".search-result",
     ".grant-item", "article.scheme", "[data-scheme-id]",
     ".list-group-item:has(a[href*='/Scheme/'])" >>

\* the n elements the k-th selector matches: each names its selector in its
\* funder text; the first one has a blank title when `blank`
Containers(k, n, blank) ==
  [j \in 1..n |->
     [title |-> IF blank /\ j = 1 THEN "  " ELSE " Scheme ",
      funder |-> "Funder " \o ToString(k),
      href |-> "/Scheme/View/" \o ToString(10 * k + j)]]

\* the pages: what each selector matches, and the detail links that lie in
\* no container
Doms ==
  { [elements |-> [k \in 1..Len(selectors) |-> Containers(k, c[k], b)],
     links |-> [j \in 1..n |-> [title |-> "Link", funder |-> "",
                                href |-> "/Scheme/View/" \o ToString(j)]]] :
      c \in [1..Len(selectors) -> 0..MaxElements], b \in BOOLEAN,
      n \in 0..MaxElements }

RECURSIVE schemeLinks(_, _)
\* page.locator('a[href*="/Scheme/View/"]').all(): the links of the
\* containers, then those outside them
schemeLinks(elements, links) ==
  IF elements = << >> THEN links
  ELSE Head(elements) \o schemeLinks(Tail(elements), links)

RECURSIVE LastMatching(_, _)
\* the loop over the selectors without its break
LastMatching(d, k) ==
  IF k > Len(selectors) THEN 0
  ELSE IF LastMatching(d, k + 1) # 0 THEN LastMatching(d, k + 1)
  ELSE IF Len(d.elements[k]) > 0 THEN k ELSE 0

RECURSIVE FirstMatching(_, _)
\* for (const selector of selectors): the first selector from the k-th on
\* with elements.length > 0, 0 when there is none
FirstMatching(d, k) ==
  IF k > Len(selectors) THEN 0
  ELSE IF Len(d.elements[k]) > 0 THEN k
  ELSE FirstMatching(d, k + 1)

\* the loop over grantElements; a container without a title element makes
\* textContent() throw, which the loop's catch swallows like a blank title
ElementGrants(grantElements) ==
  LET titled == SelectSeq(grantElements, LAMBDA e : Trim(e.title) # "")
  IN  [j \in 1..Len(titled) |->
         [title |-> Trim(titled[j].title),
          funder |-> Trim(titled[j].funder),
          maxAmount |-> "",
          deadline |-> "",
          status |-> "",
          link |-> AbsoluteLink(titled[j].href),
          areaOfWork |-> ""]]

\* the loop over schemeLinks
LinkGrants(links) ==
  LET kept == SelectSeq(links, LAMBDA a : Trim(a.title) # "" /\ a.href # "")
  IN  [j \in 1..Len(kept) |->
         [title |-> Trim(kept[j].title),
          funder |-> "",
          maxAmount |-> "",
          deadline |-> "",
          status |-> "",
          link |-> AbsoluteLink(kept[j].href),
          areaOfWork |-> ""]]

extractGrants(d) ==
  LET found == FirstMatching(d, 1)
      grantElements == IF found = 0 THEN << >> ELSE d.elements[found]
  IN  IF Len(grantElements) = 0
      THEN LinkGrants(schemeLinks(d.elements, d.links))
      ELSE ElementGrants(grantElements)

ExtInit ==
  /\ dom \in Doms
  /\ returns = << >>
  /\ ScraperIdle
  /\ SanIdle
  /\ ServerIdle
  /\ TwinIdle

\* one call of extractGrants(page); a locator's all() may reject
ExtractGrants ==
  /\ returns = << >>
  /\ \E ok \in BOOLEAN :
       returns' = << IF ok THEN [ok |-> TRUE, grants |-> extractGrants(dom)]
                       ELSE [ok |-> FALSE, grants |-> << >>] >>
  /\ UNCHANGED <<dom, scraperVars, sanVars, serverVars, twinVars>>

ExtSpec == ExtInit /\ [][ExtractGrants]_vars

(* C32.  The selector cascade. *)
\* the selectors that match at least one element of the page
Matching == {k \in 1..Len(selectors) : Len(dom.elements[k]) > 0}

\* the records of gs that were built from an element of the k-th selector
FromSelector(gs, k) ==
  {a \in 1..Len(gs) : gs[a].funder = "Funder " \o ToString(k)}

\* the records of gs that were built from a bare detail link
FromScan(gs) == {a \in 1..Len(gs) : gs[a].funder = ""}

\* C32: the records extractGrants returns for a page all come from one
\* matcher; when some container selector matches an element they are the
\* titled elements of the first such selector in the list, and records of the
\* bare detail-link scan are returned only when no container selector matches
\* anything.
C32_FirstMatcherOnly ==
  \A r \in {returns[n] : n \in DOMAIN returns} :
    r.ok =>
      LET gs == r.grants
      IN  /\ \A k \in 1..Len(selectors) :
               FromSelector(gs, k) # {} =>
                 /\ k \in Matching
                 /\ \A j \in Matching : k <= j
                 /\ FromSelector(gs, k) = 1..Len(gs)
          /\ FromScan(gs) # {} => Matching = {} /\ FromScan(gs) = 1..Len(gs)
          /\ \A k \in Matching :
               (\A j \in Matching : k <= j) =>
                 Len(gs) = Len(SelectSeq(dom.elements[k],
                                         LAMBDA e : Trim(e.title) # ""))
          /\ Matching = {} => Len(gs) = Len(dom.links)

\* a page on which two selectors match and a loose detail link exists; the
\* call returned the record of the first selector's element alone
C32_Witness ==
  /\ returns # << >>
  /\ returns[1].ok
  /\ Cardinality(Matching) >= 2
  /\ Len(dom.links) > 0
  /\ Len(returns[1].grants) = 1

\* a page on which no container selector matches: the scan's records
C32_WitnessScan ==
  /\ returns # << >>
  /\ returns[1].ok
  /\ Matching = {}
  /\ Len(returns[1].grants) = 1
  /\ returns[1].grants[1].funder = ""

(* C33.  Missing fields never drop a record. *)
\* the item has a <dt> with this label
HasTerm(item, label) ==
  \E k \in 1..Len(item.terms) : Trim(item.terms[k].label) = label

\* gs holds, in order, one record for each item with a title and a link, and
\* in it the empty string for each field the item lacks
KeptWithBlanks(items, gs) ==
  LET kept == SelectSeq(items, LAMBDA it : Trim(it.title) # "" /\ it.href # "")
  IN  /\ Len(gs) = Len(kept)
      /\ \A k \in 1..Len(kept) :
           /\ gs[k].title = Trim(kept[k].title)
           /\ Includes(gs[k].link, kept[k].href)
           /\ Trim(kept[k].funder) = "" => gs[k].funder = ""
           /\ ~HasTerm(kept[k], "Status") => gs[k].status = ""
           /\ ~HasTerm(kept[k], "Maximum value") => gs[k].maxAmount = ""
           /\ ~HasTerm(kept[k], "Current deadline") => gs[k].deadline = ""
           /\ gs[k].areaOfWork = ""

\* C33: when extractGrantsFromPage has returned for the page shown, its
\* result holds one record for every item of the page that has a title and a
\* link, whichever of funder, status, maximum amount and deadline the item
\* lacks; each lacking field is the empty string and areaOfWork is the empty
\* string.
C33_MissingFieldsKept ==
  (pc = "detect" \/ (pc = "walkDone" /\ pageGrants = << >> /\ extractedPages > 0))
    => KeptWithBlanks(ListingItems(portal, shown), pageGrants)

\* a page was extracted whose records include one with none of the four
\* fields and one with some of them
C33_Witness ==
  /\ pc = "detect"
  /\ \E k \in 1..Len(pageGrants) :
       /\ pageGrants[k].funder = "" /\ pageGrants[k].status = ""
       /\ pageGrants[k].maxAmount = "" /\ pageGrants[k].deadline = ""
  /\ \E k \in 1..Len(pageGrants) :
       /\ pageGrants[k].funder # "" /\ pageGrants[k].status # ""
       /\ pageGrants[k].deadline = ""

(* C34.  Absolute links. *)
\* C34: every record extractGrantsFromPage returns for the page shown has an
\* absolute link: an href that starts with the scheme is kept as it is, and
\* any other href, with or without a leading slash, becomes a URL that
\* consists of the portal host, a slash and the path.
C34_AbsoluteLinks ==
  pc = "detect" =>
    LET kept == SelectSeq(ListingItems(portal, shown),
                          LAMBDA it : Trim(it.title) # "" /\ it.href # "")
    IN  \A k \in 1..Len(kept) :
          k <= Len(pageGrants) =>
            IF StartsWith(kept[k].href, "http")
            THEN pageGrants[k].link = kept[k].href
            ELSE /\ StartsWith(pageGrants[k].link, IDOX_HOST \o "/")
                 /\ Includes(pageGrants[k].link, kept[k].href)

(* C35.  Record events and the final result. *)
\* the positions of the 'grant' events among the events
GrantEventAt == {n \in 1..Len(events) : events[n].type = "grant"}

\* the records that got a progress event and no 'grant' event
NoGrantEvent ==
  {k \in 1..Len(ProgressEvents) : \A n \in GrantEventAt : ProgressCount(n) # k}

\* C35: when a streamed run with an enrichment pass has succeeded, each
\* 'grant' event the callback received carries the record the result holds at
\* the position of the record the event is about, the result holds an
\* unenriched record at the position of each record that got a progress
\* event and no 'grant' event, and it has no other entries.
C35_RecordEventsAreTheResult ==
  (Succeeded /\ cb = "sse" /\ ShouldEnrich(enrich, allGrants)) =>
    LET gs == result[1].grants
    IN  /\ Len(gs) = Cardinality(GrantEventAt) + Cardinality(NoGrantEvent)
        /\ \A n \in GrantEventAt :
             /\ ProgressCount(n) <= Len(gs)
             /\ gs[ProgressCount(n)] = events[n].data
        /\ \A k \in NoGrantEvent :
             k <= Len(gs) /\ gs[k] = allGrants[k]

(* C36.  A client disconnect during a streamed scrape. *)
\* C36: on the streaming endpoint the client's disconnect changes nothing of
\* the scrape; from then on every event the callback is invoked with is
\* dropped; a run that succeeds after the disconnect has still invoked the
\* callback with a progress event for every extracted record and returns a
\* record for each; and after a disconnect the scrape always comes to its
\* end, by returning or failing, with its browser session closed.
C36_DisconnectDoesNotStopScrape ==
  /\ [][(~clientDisconnected /\ clientDisconnected') =>
          UNCHANGED <<pc, browser, error, result, events, walkerVars, enrichVars>>]_vars
  /\ [][(clientDisconnected /\ events' # events) => written' = written]_vars
  /\ [](( /\ clientDisconnected
          /\ Succeeded
          /\ ShouldEnrich(enrich, allGrants) ) =>
            /\ Len(ProgressEvents) = Len(allGrants)
            /\ Len(result[1].grants) >= Len(allGrants))
  /\ clientDisconnected ~> (Settled /\ browser \in {"null", "closed"})

\* the client went before the first phase event; the scrape walked the
\* listing, enriched its records and closed its session, and the response
\* got nothing after the 'connected' event and was not ended
C36_Witness ==
  /\ cb = "sse"
  /\ clientDisconnected
  /\ pc = "done"
  /\ browser = "closed"
  /\ responded
  /\ ~resEnded
  /\ Len(written) = 1
  /\ Len(ProgressEvents) >= 2
  /\ events[Len(events)].type = "grant"

(* C37.  When the enrichment pass runs. *)
\* the 'enriching_start' event has been emitted
EnrichingStarted ==
  \E n \in 1..Len(events) :
    events[n].type = "phase" /\ events[n].phase = "enriching_start"

\* C37: on a streamed run, the 'enriching_start' event is emitted and
\* enrichGrants is entered only with enrich true and at least one record
\* extracted, and with both they have happened by the time the entry point
\* reaches its return, with a progress event for every record; with enrich
\* true and no record extracted there is no 'enriching_start', progress or
\* record event, and the run goes on to succeed with an empty result.
C37_EnrichOnlyWithRecords ==
  /\ []((EnrichingStarted \/ Enriching \/ ProgressEvents # << >> \/ GrantEventAt # {})
          => ShouldEnrich(enrich, allGrants))
  /\ []((pc = "return" /\ enrich /\ Len(allGrants) > 0)
          => (EnrichingStarted /\ Len(ProgressEvents) = Len(allGrants)))
  /\ []((pc \in {"return", "closing", "done"} /\ enrich /\ allGrants = << >>)
          => /\ ~EnrichingStarted
             /\ ProgressEvents = << >>
             /\ GrantEventAt = {}
             /\ grants = << >>
             /\ (pc = "done" => result[1].grants = << >> /\ result[1].totalFound = 0))
  /\ (pc = "afterExtract" /\ enrich /\ grants = << >>) ~> Succeeded

\* a streamed run with enrich=true against a listing without records has
\* succeeded: its last event is 'extracted'
C37_Witness ==
  /\ cb = "sse"
  /\ enrich
  /\ pc = "done"
  /\ allGrants = << >>
  /\ result[1].grants = << >>
  /\ events[Len(events)].type = "phase"
  /\ events[Len(events)].phase = "extracted"

\* a streamed run with enrich=true and records has run the pass
C37_WitnessPass ==
  /\ cb = "sse"
  /\ enrich
  /\ pc = "done"
  /\ Len(allGrants) = 2
  /\ EnrichingStarted
  /\ Len(ProgressEvents) = 2

(* C38.  The enriched flag. *)
\* C38: the enriched flag of the result of a run that has succeeded is the
\* enrich option the run was invoked with, whether or not the enrichment
\* pass ran and whatever it did to the records.
C38_EnrichedIsTheOption ==
  Succeeded => result[1].enriched = enrich

\* enrich=true, every record's iteration ran the catch block: enriched is
\* true and no record of the result has an enriched field
C38_Witness ==
  /\ Succeeded
  /\ enrich
  /\ result[1].enriched
  /\ Len(result[1].grants) = 2
  /\ caught = {0, 1}
  /\ \A k \in 1..2 : \A f \in EnrichedFields : result[1].grants[k][f] = << >>

\* enrich=true and no record extracted: enriched is true, the result empty
C38_WitnessSkipped ==
  /\ Succeeded
  /\ enrich
  /\ result[1].enriched
  /\ result[1].grants = << >>
  /\ ~EnrichingStarted

(* C39.  filtersUsed does not depend on what the filter form did. *)
\* how the portal settled the lookup of the k-th status checkbox and the
\* search submit, the eighth to tenth operations of an invocation
FilterOutcome(k) == portalOutcomes[7 + k]

SubmitOutcome == portalOutcomes[8 + Len(STATUS_FILTERS)]

\* C39: whichever of the status checkboxes were dealt with or rejected and
\* whether or not the search submit went through, the result of an
\* invocation that returns has as filtersUsed the two status strings and the
\* eight area-of-work strings.
C39_FiltersUsedFixed ==
  \A r \in 1..2 :
    (rets[r] # << >> /\ rets[r][1].ok) =>
      rets[r][1].value.filtersUsed =
        [status |-> << "Open for Applications", "Future" >>,
         areaOfWork |->
           << "Community", "Disability", "Supporting Parents and Children",
              "Promoting Mental Health", "Promoting Physical Health",
              "Community Facilities", "Sport and Recreation",
              "Play Opportunities" >>]

\* both invocations returned although the first checkbox's lookup and the
\* search submit rejected
C39_Witness ==
  /\ run = 3
  /\ rets[1][1].ok
  /\ rets[2][1].ok
  /\ FilterOutcome(1) = "rejects"
  /\ FilterOutcome(2) = "ok"
  /\ SubmitOutcome = "rejects"

\* an invocation returned after both checkboxes and the submit resolved
C39_WitnessApplied ==
  /\ rets[1] # << >>
  /\ rets[1][1].ok
  /\ FilterOutcome(1) = "ok"
  /\ FilterOutcome(2) = "ok"
  /\ SubmitOutcome = "ok"

====
